---- MODULE Spec2Model ----
(***************************************************************************)
(* A state-machine model of the Signal bridge (src/signal-bridge/bridge.py)*)
(*                                                                         *)
(* Two threads of control share the process: the main thread (main ->      *)
(* wait_for_signal_cli_ready -> start_http_server -> listen_to_sse_stream  *)
(* -> process_signal_event) and the HTTP server thread that serves         *)
(* POST /send (make_send_handler.SendHandler.do_POST).  The signal-cli     *)
(* daemon, the agent API, the transcription API and the event stream are   *)
(* the environment: every answer they can give is a nondeterministic       *)
(* choice, named by the Python exception class the call raises for it.     *)
(***************************************************************************)
EXTENDS Integers, Sequences, FiniteSets, TLC

(* ------------------------------ bounds --------------------------------- *)
\* calls of RequestCounter.next() each harness thread makes (SpecCounter)
MaxCalls == 2
\* health polls after which the clock of wait_for_signal_cli_ready has run out
MaxPolls == 2
\* lines one blank-line-terminated group of the event stream can hold
MaxGroup == 2
\* entries of one dataMessage's attachments list
MaxAttachments == 2
\* POST requests the HTTP server receives
MaxRequests == 2
\* blocks (paragraphs, headings, lists, ...) of one markdown document
MaxBlocks == 3
\* POST requests the coder server receives, each handled by a thread of its own
MaxCoderRequests == 2
\* calls of transcribe_audio, one after the other
MaxTranscribes == 2

(* --------------------------- configuration ----------------------------- *)
\* signal.allowedNumbers of config.toml, and a number that is not in it
AllowedNumbers == {"+1"}
Stranger == "+9"
\* the threads that share the RequestCounter: the event loop and the gateway
Threads == {"loop", "gateway"}

VARIABLES
  \* RequestCounter
  value,           \* RequestCounter._value
  lock,            \* RequestCounter._lock: "free" or the thread holding it
  cpc,             \* per thread: its position inside next()
  ctmp,            \* per thread: the value loaded by `self._value += 1`
  cret,            \* per thread: what its last call of next() returned
  calls,           \* per thread: calls of next() it has started
  returned,        \* the values next() has returned, in completion order
  \* main
  mpc,             \* position of the main thread
  pending,         \* exception in flight in main: "none", "kbd", "exc"
  exitKind,        \* how the process ended: "none", "clean", "error"
  daemon,          \* signal_cli_process: "absent", "running", "exited"
  signals,         \* signals main has sent to the daemon, in order
  elapsed,         \* failed health polls so far (0.5 s each)
  waitResult,      \* wait_for_signal_cli_ready: "none", "ready", "timeout", "error"
  healthOk,        \* the health endpoint has answered 200
  gatewayUp,       \* start_http_server has started the server thread
  stt_config,      \* "None" or "configured"
  \* listen_to_sse_stream
  connects,        \* connections opened to /api/v1/events
  connStatus,      \* status of the initial response: "none", "200", "other"
  lastRead,        \* what the last readline gave: "none" (nothing read yet),
                   \* "line", "blank", "undecodable"
  streamEnd,       \* "none", "eof" (readline returned b""), "undecodable"
  event_lines,     \* the buffered lines of the current group
  dropped,         \* why the last discarded group was discarded ("none": no
                   \* group has been discarded)
  \* process_signal_event
  ppc,             \* position inside process_signal_event ("idle" outside it)
  event_data,      \* the decoded payload being processed
  message_text,    \* the text assembled so far
  attLeft,         \* attachments not yet visited by the loop
  effects,         \* what this call has done: subset of Effects
  agentOutcome,    \* outcome of this call's send_agent_request
  agentRequest,    \* body of this call's POST /chat
  nTranscribe,     \* transcribe_audio calls made for this event
  nAudio,          \* audio attachments met in this event
  procResult,      \* "none", "returned", "raised"
  \* SendHandler.do_POST
  gpc,             \* position of the HTTP server thread
  request,         \* the request being served
  requests,        \* requests received so far
  response,        \* status answered to the request (0: none yet)
  request_id,      \* the id allocated for the request (0: none)
  success,         \* result of the send RPC: "unset", "true", "false"
  tempFiles,       \* temporary attachment files on disk
  tempMade,        \* the handler has created a temporary file for this request
  rpcLog,          \* the send RPCs issued to the daemon, in order
  rpcOutcome,      \* how the send RPC of this request ended ("none": not sent)
  \* convert_markdown
  kpc,             \* position inside convert_markdown: "idle", "walk", "returned"
  ast,             \* the document tree the parser has produced
  walked,          \* top-level nodes of ast that walk_nodes has visited
  converter,       \* the _Converter object: its text and its styles
  plain_text,      \* the text returned
  text_styles,     \* the style list returned
  input,           \* the text convert_markdown was called with, when the
                   \* model knows it (given); else only its tree is known
  \* the coder server (src/coder/server.py)
  claude_lock,     \* _claude_lock: the thread that holds it
  claude_running,  \* _claude_running
  hpc,             \* per request: the position of its handler thread in do_POST
  sent,            \* per request: the status sent ("none": nothing sent)
  tpc,             \* per request: the position of the thread it started in
                   \* run_coding_task ("none": no thread)
  \* transcribe_audio and convert_audio_to_mp3, step by step
  xpc,             \* position in transcribe_audio / convert_audio_to_mp3
  content_type,    \* the content type of the attachment
  converted_path,  \* "unset", "None", or "name" (the temporary file's name)
  mp3,             \* the temporary mp3 file of this call: "none", "on disk",
                   \* "deleted", "unlink failed" (os.unlink raised OSError)
  mp3_left,        \* temporary mp3 files earlier calls have left on disk
  transcribes,     \* calls of transcribe_audio made
  xresult,         \* "none", "text" (returned), or the exception raised
  \* run_script of the python-runner (src/python-runner/server.py)
  spc,             \* position in run_script
  script,          \* what the request and the script are like: the inputs
  script_file,     \* the temporary script file: "none", "on disk", "deleted",
                   \* "unlink failed" (os.unlink raised OSError)
  uv_process,      \* process: "none", "running", "exited"
  sent_signals,    \* the signals sent to the process, in order
  timed_out,       \* timed_out
  run_result       \* how run_script ended ("none", "returned", "raised") and
                   \* the text it returned

counterVars == <<value, lock, cpc, ctmp, cret, calls, returned>>
mainVars == <<mpc, pending, exitKind, daemon, signals, elapsed, waitResult,
              healthOk, gatewayUp, stt_config>>
streamVars == <<connects, connStatus, lastRead, streamEnd, event_lines,
                dropped>>
procVars == <<ppc, event_data, message_text, attLeft, effects, agentOutcome,
              agentRequest, nTranscribe, nAudio, procResult>>
gatewayVars == <<gpc, request, requests, response, request_id, success,
                 tempFiles, tempMade, rpcLog, rpcOutcome>>
gatewayVarsButPc == <<request, requests, response, request_id, success,
                      tempFiles, tempMade, rpcLog, rpcOutcome>>
convertVars == <<kpc, ast, walked, converter, plain_text, text_styles, input>>
coderVars == <<claude_lock, claude_running, hpc, sent, tpc>>
runnerVars == <<spc, script, script_file, uv_process, sent_signals, timed_out,
                run_result>>
transcribeVars == <<xpc, content_type, converted_path, mp3, mp3_left,
                    transcribes, xresult>>
\* all variables but those of the coder server
bridgeVars == <<counterVars, mainVars, streamVars, procVars, gatewayVars,
                convertVars, transcribeVars, runnerVars>>
\* all variables but those of transcribe_audio taken step by step
othersVars == <<counterVars, mainVars, streamVars, procVars, gatewayVars,
                convertVars, coderVars, runnerVars>>
\* all variables but those of run_script
restVars == <<counterVars, mainVars, streamVars, procVars, gatewayVars,
              convertVars, coderVars, transcribeVars>>
vars == <<counterVars, mainVars, streamVars, procVars, gatewayVars,
          convertVars, coderVars, transcribeVars, runnerVars>>

(* ============================ RequestCounter =========================== *)

\* next() entered without waiting for the lock: the variant without mutual
\* exclusion, against which C1 is checked
NextAcquireNoLock(t) ==
  /\ cpc[t] = "acquire"
  /\ lock' = t
  /\ cpc' = [cpc EXCEPT ![t] = "load"]
  /\ UNCHANGED <<value, ctmp, cret, calls, returned>>

\* with self._lock: (entry) -- blocks until the lock is free
NextAcquire(t) ==
  /\ cpc[t] = "acquire"
  /\ lock = "free"
  /\ lock' = t
  /\ cpc' = [cpc EXCEPT ![t] = "load"]
  /\ UNCHANGED <<value, ctmp, cret, calls, returned>>

\* self._value += 1, first half: load self._value
NextLoad(t) ==
  /\ cpc[t] = "load"
  /\ ctmp' = [ctmp EXCEPT ![t] = value]
  /\ cpc' = [cpc EXCEPT ![t] = "store"]
  /\ UNCHANGED <<value, lock, cret, calls, returned>>

\* self._value += 1, second half: store the sum
NextStore(t) ==
  /\ cpc[t] = "store"
  /\ value' = ctmp[t] + 1
  /\ cpc' = [cpc EXCEPT ![t] = "return"]
  /\ UNCHANGED <<lock, ctmp, cret, calls, returned>>

\* return self._value, leaving the with block (the lock is released)
NextReturn(t) ==
  /\ cpc[t] = "return"
  /\ cret' = [cret EXCEPT ![t] = value]
  /\ returned' = Append(returned, value)
  /\ lock' = IF lock = t THEN "free" ELSE lock
  /\ cpc' = [cpc EXCEPT ![t] = "idle"]
  /\ UNCHANGED <<value, ctmp, calls>>

\* a thread calls request_counter.next()
CallNext(t) ==
  /\ cpc[t] = "idle"
  /\ calls[t] < MaxCalls
  /\ calls' = [calls EXCEPT ![t] = @ + 1]
  /\ cpc' = [cpc EXCEPT ![t] = "acquire"]
  /\ UNCHANGED <<value, lock, ctmp, cret, returned>>

\* RequestCounter.__init__
CounterInit ==
  /\ value = 0
  /\ lock = "free"
  /\ cpc = [t \in Threads |-> "idle"]
  /\ ctmp = [t \in Threads |-> 0]
  /\ cret = [t \in Threads |-> 0]
  /\ calls = [t \in Threads |-> 0]
  /\ returned = <<>>

(* ================================ main ================================= *)

\* a Python value of a message: None, a str (its parts in order), an int
PyNone == [type |-> "NoneType", parts |-> <<>>]
PyStr(parts) == [type |-> "str", parts |-> parts]
PyInt == [type |-> "int", parts |-> <<"5">>]
Truthy(x) == x.type = "int" \/ (x.type = "str" /\ x.parts # <<>>)

NoRequest == [message |-> PyNone, source |-> "none", sender |-> "none"]

\* the payload handed to process_signal_event; its members are drawn when
\* the code first reads them
Unread(payload) ==
  [payload |-> payload, envelope |-> "unread", sourceNumber |-> "unread",
   dataMessage |-> "unread", message |-> "unread", attachments |-> "unread"]

\* no call of process_signal_event is in progress or on record: the record of
\* the last call is kept until main takes its next step
ProcIdle ==
  [ppc |-> "idle", event_data |-> Unread("None"), message_text |-> PyNone,
   attLeft |-> 0, effects |-> {}, agentOutcome |-> "none",
   agentRequest |-> NoRequest, nTranscribe |-> 0, nAudio |-> 0,
   procResult |-> "none"]

ProcClear ==
  /\ ppc' = ProcIdle.ppc
  /\ event_data' = ProcIdle.event_data
  /\ message_text' = ProcIdle.message_text
  /\ attLeft' = ProcIdle.attLeft
  /\ effects' = ProcIdle.effects
  /\ agentOutcome' = ProcIdle.agentOutcome
  /\ agentRequest' = ProcIdle.agentRequest
  /\ nTranscribe' = ProcIdle.nTranscribe
  /\ nAudio' = ProcIdle.nAudio
  /\ procResult' = ProcIdle.procResult

\* positions of main inside the try block of lines 598-601
TryBody == {"wait", "http", "connect", "read", "process"}
\* positions of main inside the finally block of lines 607-614
FinallyBody == {"terminate", "grace", "kill", "exit"}

\* an exception leaves the try body: `except Exception: log; raise` (604-606)
\* or `except KeyboardInterrupt: log` (602-603), then the finally block
Raise(kind) ==
  /\ pending' = kind
  /\ mpc' = "terminate"

\* signal_cli_process = start_signal_cli(account): Popen starts the daemon, or
\* raises OSError (no signal-cli executable) and main ends before the try
StartSignalCli ==
  /\ mpc = "start"
  /\ \/ /\ daemon' = "running"
        /\ mpc' = "counter"
        /\ UNCHANGED exitKind
     \/ /\ mpc' = "exited"
        /\ exitKind' = "error"
        /\ UNCHANGED daemon
  /\ UNCHANGED <<pending, signals, elapsed, waitResult, healthOk, gatewayUp,
                 stt_config, counterVars, streamVars, procVars, gatewayVars>>
  /\ UNCHANGED convertVars
  /\ UNCHANGED coderVars
  /\ UNCHANGED transcribeVars
  /\ UNCHANGED runnerVars

\* request_counter = RequestCounter(), then the try block is entered
MakeCounter ==
  /\ mpc = "counter"
  /\ mpc' = "wait"
  /\ UNCHANGED <<pending, exitKind, daemon, signals, elapsed, waitResult,
                 healthOk, gatewayUp, stt_config, counterVars, streamVars,
                 procVars, gatewayVars>>
  /\ UNCHANGED convertVars
  /\ UNCHANGED coderVars
  /\ UNCHANGED transcribeVars
  /\ UNCHANGED runnerVars

\* the answers GET /api/v1/check can get: a status, a refused connection
\* (OSError, swallowed), a garbled status line (http.client.HTTPException)
HealthAnswers == {"200", "503", "OSError", "HTTPException"}

\* one iteration of the polling loop of wait_for_signal_cli_ready
WaitPoll ==
  /\ mpc = "wait"
  /\ elapsed < MaxPolls
  /\ \E answer \in HealthAnswers :
       CASE answer = "200" ->
              /\ healthOk' = TRUE
              /\ waitResult' = "ready"
              /\ mpc' = "http"
              /\ UNCHANGED <<elapsed, pending>>
         [] answer \in {"503", "OSError"} ->
              /\ elapsed' = elapsed + 1
              /\ UNCHANGED <<healthOk, waitResult, mpc, pending>>
         [] OTHER ->
              /\ waitResult' = "error"
              /\ Raise("exc")
              /\ UNCHANGED <<healthOk, elapsed>>
  /\ UNCHANGED <<exitKind, daemon, signals, gatewayUp, stt_config, counterVars,
                 streamVars, procVars, gatewayVars>>
  /\ UNCHANGED convertVars
  /\ UNCHANGED coderVars
  /\ UNCHANGED transcribeVars
  /\ UNCHANGED runnerVars

\* a wait that returns when the time has run out instead of raising: the
\* variant against which C9 is checked
WaitTimeoutReturns ==
  /\ mpc = "wait"
  /\ elapsed >= MaxPolls
  /\ waitResult' = "timeout"
  /\ mpc' = "http"
  /\ UNCHANGED <<pending, exitKind, daemon, signals, elapsed, healthOk,
                 gatewayUp, stt_config, counterVars, streamVars, procVars,
                 gatewayVars>>
  /\ UNCHANGED convertVars
  /\ UNCHANGED coderVars
  /\ UNCHANGED transcribeVars
  /\ UNCHANGED runnerVars

\* the loop condition fails: raise TimeoutError
WaitTimeout ==
  /\ mpc = "wait"
  /\ elapsed >= MaxPolls
  /\ waitResult' = "timeout"
  /\ Raise("exc")
  /\ UNCHANGED <<exitKind, daemon, signals, elapsed, healthOk, gatewayUp,
                 stt_config, counterVars, streamVars, procVars, gatewayVars>>
  /\ UNCHANGED convertVars
  /\ UNCHANGED coderVars
  /\ UNCHANGED transcribeVars
  /\ UNCHANGED runnerVars

\* start_http_server: the server binds port 8081 and its thread starts, or
\* HTTPServer() raises OSError (address in use)
StartHttpServer ==
  /\ mpc = "http"
  /\ \/ /\ gatewayUp' = TRUE
        /\ mpc' = "connect"
        /\ UNCHANGED pending
     \/ /\ Raise("exc")
        /\ UNCHANGED gatewayUp
  /\ UNCHANGED <<exitKind, daemon, signals, elapsed, waitResult, healthOk,
                 stt_config, counterVars, streamVars, procVars, gatewayVars>>
  /\ UNCHANGED convertVars
  /\ UNCHANGED coderVars
  /\ UNCHANGED transcribeVars
  /\ UNCHANGED runnerVars

\* finally: signal_cli_process.terminate()
Terminate ==
  /\ mpc = "terminate"
  /\ signals' = Append(signals, "SIGTERM")
  /\ mpc' = "grace"
  /\ ProcClear
  /\ UNCHANGED <<pending, exitKind, daemon, elapsed, waitResult, healthOk,
                 gatewayUp, stt_config, counterVars, streamVars, gatewayVars>>
  /\ UNCHANGED convertVars
  /\ UNCHANGED coderVars
  /\ UNCHANGED transcribeVars
  /\ UNCHANGED runnerVars

\* a wait after which the kill follows whatever the daemon did: the variant
\* against which C23 is checked
GraceWaitThenKill ==
  /\ mpc = "grace"
  /\ \/ daemon' = "exited"
     \/ UNCHANGED daemon
  /\ mpc' = "kill"
  /\ UNCHANGED <<pending, exitKind, signals, elapsed, waitResult, healthOk,
                 gatewayUp, stt_config, counterVars, streamVars, procVars,
                 gatewayVars>>
  /\ UNCHANGED convertVars
  /\ UNCHANGED coderVars
  /\ UNCHANGED transcribeVars
  /\ UNCHANGED runnerVars

\* signal_cli_process.wait(timeout=5): the daemon exits, or TimeoutExpired
GraceWait ==
  /\ mpc = "grace"
  /\ \/ /\ daemon' = "exited"
        /\ mpc' = "exit"
     \/ /\ mpc' = "kill"
        /\ UNCHANGED daemon
  /\ UNCHANGED <<pending, exitKind, signals, elapsed, waitResult, healthOk,
                 gatewayUp, stt_config, counterVars, streamVars, procVars,
                 gatewayVars>>
  /\ UNCHANGED convertVars
  /\ UNCHANGED coderVars
  /\ UNCHANGED transcribeVars
  /\ UNCHANGED runnerVars

\* except subprocess.TimeoutExpired: signal_cli_process.kill()
Kill ==
  /\ mpc = "kill"
  /\ signals' = Append(signals, "SIGKILL")
  /\ daemon' = "exited"
  /\ mpc' = "exit"
  /\ UNCHANGED <<pending, exitKind, elapsed, waitResult, healthOk, gatewayUp,
                 stt_config, counterVars, streamVars, procVars, gatewayVars>>
  /\ UNCHANGED convertVars
  /\ UNCHANGED coderVars
  /\ UNCHANGED transcribeVars
  /\ UNCHANGED runnerVars

\* the finally block is done: main returns (the interrupt was swallowed) or
\* the exception raised again at line 606 ends the process
Exit ==
  /\ mpc = "exit"
  /\ mpc' = "exited"
  /\ exitKind' = IF pending = "exc" THEN "error" ELSE "clean"
  /\ UNCHANGED <<pending, daemon, signals, elapsed, waitResult, healthOk,
                 gatewayUp, stt_config, counterVars, streamVars, procVars,
                 gatewayVars>>
  /\ UNCHANGED convertVars
  /\ UNCHANGED coderVars
  /\ UNCHANGED transcribeVars
  /\ UNCHANGED runnerVars

\* KeyboardInterrupt is raised in the main thread, between any two of its
\* steps once the daemon has been started: inside the try block it is caught
\* at line 602; before the try (line 596) and inside the finally block nothing
\* catches it and the process ends there.  The frames it unwinds are gone,
\* event_lines with them.
Interrupt ==
  /\ mpc \in {"counter"} \cup TryBody \cup FinallyBody
  /\ IF mpc \in TryBody
       THEN /\ Raise("kbd")
            /\ UNCHANGED exitKind
       ELSE /\ mpc' = "exited"
            /\ pending' = "kbd"
            /\ exitKind' = "error"
  /\ IF ppc # "idle"
       THEN /\ ppc' = "idle"
            /\ procResult' = "interrupted"
            /\ UNCHANGED <<event_data, message_text, attLeft, effects,
                           agentOutcome, agentRequest, nTranscribe, nAudio>>
       ELSE ProcClear
  /\ event_lines' = <<>>
  /\ UNCHANGED <<daemon, signals, elapsed, waitResult, healthOk, gatewayUp,
                 stt_config, counterVars, connects, connStatus, lastRead,
                 streamEnd, dropped, gatewayVars>>
  /\ UNCHANGED convertVars
  /\ UNCHANGED coderVars
  /\ UNCHANGED transcribeVars
  /\ UNCHANGED runnerVars

MainInit ==
  /\ mpc = "start"
  /\ pending = "none"
  /\ exitKind = "none"
  /\ daemon = "absent"
  /\ signals = <<>>
  /\ elapsed = 0
  /\ waitResult = "none"
  /\ healthOk = FALSE
  /\ gatewayUp = FALSE
  /\ stt_config \in {"None", "configured"}

(* ======================== listen_to_sse_stream ========================= *)

\* The lines the stream can carry, after rstrip: an "event:" line (for the
\* receive type or another), a "data:" line, any other line.  A data line is
\* named by its payload text: nothing, text that is no JSON, JSON that is
\* falsy in Python ({}), JSON that is truthy but no object ([1]), an object.
DataTexts == {"", "notjson", "{}", "[1]", "{...}"}
Lines ==
  {[field |-> "event", val |-> v] : v \in {"receive", "typing"}}
    \cup {[field |-> "data", val |-> d] : d \in DataTexts}
    \cup {[field |-> "other", val |-> ":"]}

\* the value the loop of parse_sse_event leaves in event_type / data: that of
\* the last line with the prefix, None without one
LastField(lines, field) ==
  LET at == {i \in DOMAIN lines : lines[i].field = field}
  IN  IF at = {} THEN "None"
      ELSE lines[CHOOSE i \in at : \A j \in at : j <= i].val

\* json.loads on the text of a data line
json_loads(data) == IF data = "notjson" THEN "JSONDecodeError" ELSE data

\* a parse that does not look at the event type: the variant against which
\* C22 is checked
parse_sse_event_any_type(lines) ==
  LET data == LastField(lines, "data")
  IN  IF data \notin {"None", ""}
        THEN IF json_loads(data) = "JSONDecodeError" THEN "None"
             ELSE json_loads(data)
        ELSE "None"

\* parse_sse_event: the decoded payload, or None
parse_sse_event(lines) ==
  LET event_type == LastField(lines, "event")
      data == LastField(lines, "data")
  IN  IF event_type = "receive" /\ data \notin {"None", ""}
        THEN IF json_loads(data) = "JSONDecodeError" THEN "None"
             ELSE json_loads(data)
        ELSE "None"

\* Python truth value of a decoded payload (`if event_data:`)
PayloadTruthy(v) == v \in {"[1]", "{...}"}

\* why a group is not handed on: its event type, its data line, its JSON
DropReason(lines) ==
  CASE LastField(lines, "event") = "None" -> "no event"
    [] LastField(lines, "event") # "receive" -> "not receive"
    [] LastField(lines, "data") = "None" -> "no data"
    [] LastField(lines, "data") = "" -> "empty data"
    [] json_loads(LastField(lines, "data")) = "JSONDecodeError" -> "not JSON"
    [] OTHER -> "falsy"

\* connection.request("GET", "/api/v1/events"), response.status (516-523)
Connect ==
  /\ mpc = "connect"
  /\ connects' = connects + 1
  /\ \E status \in {"200", "other", "OSError"} :
       /\ connStatus' = status
       /\ IF status = "200"
            THEN mpc' = "read" /\ UNCHANGED pending
            ELSE Raise("exc")
  /\ UNCHANGED <<exitKind, daemon, signals, elapsed, waitResult, healthOk,
                 gatewayUp, stt_config, lastRead, streamEnd, event_lines,
                 dropped, counterVars, procVars, gatewayVars>>
  /\ UNCHANGED convertVars
  /\ UNCHANGED coderVars
  /\ UNCHANGED transcribeVars
  /\ UNCHANGED runnerVars

\* an end of stream answered by opening the stream again: the variant
\* against which C7 is checked
ReadEofReconnect ==
  /\ mpc = "read"
  /\ streamEnd' = "eof"
  /\ mpc' = "connect"
  /\ event_lines' = <<>>
  /\ ProcClear
  /\ UNCHANGED <<pending, exitKind, daemon, signals, elapsed, waitResult,
                 healthOk, gatewayUp, stt_config, connects, connStatus,
                 lastRead, dropped, counterVars, gatewayVars>>
  /\ UNCHANGED convertVars
  /\ UNCHANGED coderVars
  /\ UNCHANGED transcribeVars
  /\ UNCHANGED runnerVars

\* readline returns b"": raise RuntimeError("SSE stream closed unexpectedly")
ReadEof ==
  /\ mpc = "read"
  /\ streamEnd' = "eof"
  /\ Raise("exc")
  /\ event_lines' = <<>>
  /\ ProcClear
  /\ UNCHANGED <<exitKind, daemon, signals, elapsed, waitResult, healthOk,
                 gatewayUp, stt_config, connects, connStatus, lastRead,
                 dropped, counterVars, gatewayVars>>
  /\ UNCHANGED convertVars
  /\ UNCHANGED coderVars
  /\ UNCHANGED transcribeVars
  /\ UNCHANGED runnerVars

\* the line's bytes are not UTF-8: line.decode raises UnicodeDecodeError
ReadUndecodable ==
  /\ mpc = "read"
  /\ lastRead' = "undecodable"
  /\ streamEnd' = "undecodable"
  /\ Raise("exc")
  /\ event_lines' = <<>>
  /\ ProcClear
  /\ UNCHANGED <<exitKind, daemon, signals, elapsed, waitResult, healthOk,
                 gatewayUp, stt_config, connects, connStatus, dropped,
                 counterVars, gatewayVars>>
  /\ UNCHANGED convertVars
  /\ UNCHANGED coderVars
  /\ UNCHANGED transcribeVars
  /\ UNCHANGED runnerVars

\* a non-blank line: event_lines.append(line)
ReadLine ==
  /\ mpc = "read"
  /\ Len(event_lines) < MaxGroup
  /\ \E line \in Lines : event_lines' = Append(event_lines, line)
  /\ lastRead' = "line"
  /\ ProcClear
  /\ UNCHANGED <<mainVars, connects, connStatus, streamEnd, dropped,
                 counterVars, gatewayVars>>
  /\ UNCHANGED convertVars
  /\ UNCHANGED coderVars
  /\ UNCHANGED transcribeVars
  /\ UNCHANGED runnerVars

\* the event handed to a worker while the loop goes on reading: the variant
\* against which C10 is checked
DispatchAsync(payload) ==
  /\ mpc' = "read"
  /\ ppc' = "entry"
  /\ event_data' = Unread(payload)
  /\ message_text' = PyNone
  /\ attLeft' = 0
  /\ effects' = {}
  /\ agentOutcome' = "none"
  /\ agentRequest' = NoRequest
  /\ nTranscribe' = 0
  /\ nAudio' = 0
  /\ procResult' = "none"
  /\ event_lines' = <<>>
  /\ UNCHANGED dropped

\* process_signal_event(event_data, ...) is called: main is inside the call
\* until it returns, and event_lines is emptied after it (line 538)
Dispatch(payload) ==
  /\ mpc' = "process"
  /\ ppc' = "entry"
  /\ event_data' = Unread(payload)
  /\ message_text' = PyNone
  /\ attLeft' = 0
  /\ effects' = {}
  /\ agentOutcome' = "none"
  /\ agentRequest' = NoRequest
  /\ nTranscribe' = 0
  /\ nAudio' = 0
  /\ procResult' = "none"
  /\ UNCHANGED <<event_lines, dropped>>

\* a blank line: the buffered group, if any, is parsed and dispatched or dropped
ReadBlank ==
  /\ mpc = "read"
  /\ lastRead' = "blank"
  /\ IF event_lines = <<>>
       THEN ProcClear /\ UNCHANGED <<mpc, event_lines, dropped>>
       ELSE IF PayloadTruthy(parse_sse_event(event_lines))
              THEN Dispatch(parse_sse_event(event_lines))
              ELSE /\ event_lines' = <<>>
                   /\ dropped' = DropReason(event_lines)
                   /\ ProcClear
                   /\ UNCHANGED mpc
  /\ UNCHANGED <<pending, exitKind, daemon, signals, elapsed, waitResult,
                 healthOk, gatewayUp, stt_config, connects, connStatus,
                 streamEnd, counterVars, gatewayVars>>
  /\ UNCHANGED convertVars
  /\ UNCHANGED coderVars
  /\ UNCHANGED transcribeVars
  /\ UNCHANGED runnerVars

StreamInit ==
  /\ connects = 0
  /\ connStatus = "none"
  /\ lastRead = "none"
  /\ streamEnd = "none"
  /\ event_lines = <<>>
  /\ dropped = "none"

(* ======================== process_signal_event ========================= *)

Effects == {"transcode", "transcribe", "agent", "rpc", "id"}

\* the call returns; back in listen_to_sse_stream, event_lines = []
ProcReturn ==
  /\ ppc' = "idle"
  /\ procResult' = "returned"
  /\ mpc' = "read"
  /\ event_lines' = <<>>
  /\ UNCHANGED pending

\* an exception leaves the call; nothing in listen_to_sse_stream catches it
ProcRaise ==
  /\ ppc' = "idle"
  /\ procResult' = "raised"
  /\ Raise("exc")
  /\ event_lines' = <<>>

\* lines 440-448: envelope, sourceNumber and dataMessage are read.  A payload
\* that is no dict has no .get and an envelope that is no dict has no .keys
\* (AttributeError); without a truthy dataMessage the event is skipped
ProcEnvelope ==
  /\ ppc = "entry"
  /\ IF event_data.payload # "{...}"
       THEN ProcRaise /\ UNCHANGED event_data
       ELSE \E envelope \in {"absent", "nondict", "dict"} :
              CASE envelope = "absent" ->
                     /\ event_data' = [event_data EXCEPT !.envelope = envelope,
                                         !.sourceNumber = "None",
                                         !.dataMessage = "absent"]
                     /\ ProcReturn
                [] envelope = "nondict" ->
                     /\ event_data' = [event_data EXCEPT !.envelope = envelope]
                     /\ ProcRaise
                [] OTHER ->
                     \E source \in {"None", Stranger} \cup AllowedNumbers,
                        dm \in {"absent", "nondict", "dict"} :
                       /\ event_data' = [event_data EXCEPT !.envelope = envelope,
                                           !.sourceNumber = source,
                                           !.dataMessage = dm]
                       /\ IF dm = "absent"
                            THEN ProcReturn
                            ELSE /\ ppc' = "auth"
                                 /\ UNCHANGED <<mpc, pending, event_lines,
                                                procResult>>
  /\ UNCHANGED <<exitKind, daemon, signals, elapsed, waitResult, healthOk,
                 gatewayUp, stt_config, connects, connStatus, lastRead,
                 streamEnd, dropped, message_text, attLeft, effects,
                 agentOutcome, agentRequest, nTranscribe, nAudio, counterVars,
                 gatewayVars>>
  /\ UNCHANGED convertVars
  /\ UNCHANGED coderVars
  /\ UNCHANGED transcribeVars
  /\ UNCHANGED runnerVars

\* the event passed on whoever sent it: the variant against which C2 is
\* checked
ProcAuthorizeAll ==
  /\ ppc = "auth"
  /\ ppc' = "message"
  /\ UNCHANGED <<mpc, pending, event_lines, procResult>>
  /\ UNCHANGED <<exitKind, daemon, signals, elapsed, waitResult, healthOk,
                 gatewayUp, stt_config, connects, connStatus, lastRead,
                 streamEnd, dropped, event_data, message_text, attLeft,
                 effects, agentOutcome, agentRequest, nTranscribe, nAudio,
                 counterVars, gatewayVars>>
  /\ UNCHANGED convertVars
  /\ UNCHANGED coderVars
  /\ UNCHANGED transcribeVars
  /\ UNCHANGED runnerVars

\* lines 450-452: if source_number not in allowed_numbers: return
ProcAuthorize ==
  /\ ppc = "auth"
  /\ IF event_data.sourceNumber \notin AllowedNumbers
       THEN ProcReturn
       ELSE /\ ppc' = "message"
            /\ UNCHANGED <<mpc, pending, event_lines, procResult>>
  /\ UNCHANGED <<exitKind, daemon, signals, elapsed, waitResult, healthOk,
                 gatewayUp, stt_config, connects, connStatus, lastRead,
                 streamEnd, dropped, event_data, message_text, attLeft,
                 effects, agentOutcome, agentRequest, nTranscribe, nAudio,
                 counterVars, gatewayVars>>
  /\ UNCHANGED convertVars
  /\ UNCHANGED coderVars
  /\ UNCHANGED transcribeVars
  /\ UNCHANGED runnerVars

\* the values "message" can hold: absent, "", a text, something that is no str
Messages == {PyNone, PyStr(<<>>), PyStr(<<"hi">>), PyInt}

\* lines 454-461: message and attachments are read (a dataMessage that is
\* truthy but no dict has no .get: AttributeError); attachments that are no
\* list are not iterated
ProcMessage ==
  /\ ppc = "message"
  /\ IF event_data.dataMessage = "nondict"
       THEN /\ ProcRaise
            /\ UNCHANGED <<event_data, message_text, attLeft>>
       ELSE \E message \in Messages, attachments \in {"absent", "nonlist", "list"},
               n \in 0 .. MaxAttachments :
              /\ attachments # "list" => n = 0
              /\ event_data' = [event_data EXCEPT !.message = message,
                                  !.attachments = attachments]
              /\ message_text' = message
              /\ attLeft' = n
              /\ ppc' = "attachments"
              /\ UNCHANGED <<mpc, pending, event_lines, procResult>>
  /\ UNCHANGED <<exitKind, daemon, signals, elapsed, waitResult, healthOk,
                 gatewayUp, stt_config, connects, connStatus, lastRead,
                 streamEnd, dropped, effects, agentOutcome, agentRequest,
                 nTranscribe, nAudio, counterVars, gatewayVars>>
  /\ UNCHANGED convertVars
  /\ UNCHANGED coderVars
  /\ UNCHANGED transcribeVars
  /\ UNCHANGED runnerVars

\* what one entry of attachments can be: no dict; a dict whose contentType is
\* no str or does not start with "audio/"; an audio entry whose id is no str;
\* an audio entry with an id
AttachmentKinds == {"nondict", "notaudio", "noid", "audio"}

\* What transcribe_audio can do.  ffmpeg runs when the content type is not in
\* SUPPORTED_AUDIO_TYPES and may fail to start (OSError) or exit non-zero
\* (RuntimeError), and then the API is not called; the API call ends with the
\* text or with the exception its failure raises.
ApiExceptions == {"none", "OSError", "RuntimeError", "JSONDecodeError",
                  "TypeError", "HTTPException", "UnicodeDecodeError"}
TranscribeOutcomes ==
  {[transcode |-> TRUE, api |-> FALSE, exc |-> e] : e \in {"OSError", "RuntimeError"}}
    \cup {[transcode |-> t, api |-> TRUE, exc |-> e] :
            t \in BOOLEAN, e \in ApiExceptions}

\* except (OSError, RuntimeError, json.JSONDecodeError) at line 484
CaughtTranscribe == {"OSError", "RuntimeError", "JSONDecodeError"}

\* a voice note that takes the place of the text: the variant against which
\* C26 is checked
ReplaceByVoiceNote(text) == PyStr(<<"[Voice note]: ", "transcript">>)

\* "[Voice note]: <transcription>" is appended to the text, on a new line
\* when there is text already
AppendVoiceNote(text) ==
  IF Truthy(text)
    THEN PyStr(text.parts \o <<"\n", "[Voice note]: ", "transcript">>)
    ELSE PyStr(<<"[Voice note]: ", "transcript">>)

\* one iteration of the loop over attachments (lines 462-492)
ProcAttachment ==
  /\ ppc = "attachments"
  /\ attLeft > 0
  /\ attLeft' = attLeft - 1
  /\ \E kind \in AttachmentKinds :
       IF kind # "audio"
         THEN UNCHANGED <<mpc, pending, event_lines, ppc, procResult,
                          message_text, effects, nTranscribe, nAudio>>
         ELSE /\ nAudio' = nAudio + 1
              /\ IF stt_config = "None"
                   THEN UNCHANGED <<mpc, pending, event_lines, ppc, procResult,
                                    message_text, effects, nTranscribe>>
                   ELSE \E out \in TranscribeOutcomes :
                          /\ nTranscribe' = nTranscribe + 1
                          /\ effects' = effects
                               \cup (IF out.transcode THEN {"transcode"} ELSE {})
                               \cup (IF out.api THEN {"transcribe"} ELSE {})
                          /\ CASE out.exc = "none" ->
                                    /\ message_text' = AppendVoiceNote(message_text)
                                    /\ UNCHANGED <<mpc, pending, event_lines,
                                                   ppc, procResult>>
                               [] out.exc \in CaughtTranscribe ->
                                    UNCHANGED <<mpc, pending, event_lines, ppc,
                                                procResult, message_text>>
                               [] OTHER ->
                                    /\ ProcRaise
                                    /\ UNCHANGED message_text
  /\ UNCHANGED <<exitKind, daemon, signals, elapsed, waitResult, healthOk,
                 gatewayUp, stt_config, connects, connStatus, lastRead,
                 streamEnd, dropped, event_data, agentOutcome,
                 agentRequest, counterVars, gatewayVars>>
  /\ UNCHANGED convertVars
  /\ UNCHANGED coderVars
  /\ UNCHANGED transcribeVars
  /\ UNCHANGED runnerVars

\* the agent called whatever the text: the variant against which C16 is
\* checked
ProcTextCheckAlways ==
  /\ ppc = "attachments"
  /\ attLeft = 0
  /\ ppc' = "agent"
  /\ UNCHANGED <<mpc, pending, event_lines, procResult>>
  /\ UNCHANGED <<exitKind, daemon, signals, elapsed, waitResult, healthOk,
                 gatewayUp, stt_config, connects, connStatus, lastRead,
                 streamEnd, dropped, event_data, message_text, attLeft,
                 effects, agentOutcome, agentRequest, nTranscribe, nAudio,
                 counterVars, gatewayVars>>
  /\ UNCHANGED convertVars
  /\ UNCHANGED coderVars
  /\ UNCHANGED transcribeVars
  /\ UNCHANGED runnerVars

\* lines 494-496, after the loop: if not message_text: return
ProcTextCheck ==
  /\ ppc = "attachments"
  /\ attLeft = 0
  /\ IF ~Truthy(message_text)
       THEN ProcReturn
       ELSE /\ ppc' = "agent"
            /\ UNCHANGED <<mpc, pending, event_lines, procResult>>
  /\ UNCHANGED <<exitKind, daemon, signals, elapsed, waitResult, healthOk,
                 gatewayUp, stt_config, connects, connStatus, lastRead,
                 streamEnd, dropped, event_data, message_text, attLeft,
                 effects, agentOutcome, agentRequest, nTranscribe, nAudio,
                 counterVars, gatewayVars>>
  /\ UNCHANGED convertVars
  /\ UNCHANGED coderVars
  /\ UNCHANGED transcribeVars
  /\ UNCHANGED runnerVars

\* What POST /chat can end with, and the exception send_agent_request raises
\* for it: a 200 with {"response": str}; another status (RuntimeError, or
\* UnicodeDecodeError when logging a body that is not UTF-8); a body that is
\* no JSON text (JSONDecodeError) or no UTF-8 (UnicodeDecodeError); JSON of
\* the wrong shape (RuntimeError; TypeError from `in` on a number or null);
\* a failed connection (OSError); a broken HTTP exchange (HTTPException).
\* ("len TypeError" is the TypeError of len() on a message that is no str.)
AgentOutcomes == {"ok", "status", "status_undecodable", "notjson", "undecodable",
                  "shape", "scalar", "refused", "incomplete"}
AgentException(out) ==
  CASE out = "ok" -> "none"
    [] out \in {"status", "shape"} -> "RuntimeError"
    [] out \in {"status_undecodable", "undecodable"} -> "UnicodeDecodeError"
    [] out = "notjson" -> "JSONDecodeError"
    [] out \in {"scalar", "len TypeError"} -> "TypeError"
    [] out = "refused" -> "OSError"
    [] OTHER -> "HTTPException"

\* except (OSError, RuntimeError, json.JSONDecodeError, KeyError, TypeError)
CaughtAgent == {"OSError", "RuntimeError", "JSONDecodeError", "KeyError", "TypeError"}

\* the agent's answer sent on to the sender with a fresh id: the variant
\* against which C15 is checked
OnAgentResponseReply(done) == done \cup {"id", "rpc"}

\* line 504: the agent's answer is logged and nothing else is done with it
OnAgentResponse(done) == done

\* an except clause that sends an apology with a fresh id: the variant
\* against which C5 is checked
OnAgentErrorApology(done) == done \cup {"id", "rpc"}

\* lines 505-506, the except clause around the agent call: the error is
\* logged and nothing else is done
OnAgentError(done) == done

\* lines 498-506: the agent is called and its answer logged; the bridge sends
\* no reply of its own.  len(message_text) raises TypeError, which is caught,
\* before any request when the message is no str.
ProcAgent ==
  /\ ppc = "agent"
  /\ IF message_text.type # "str"
       THEN /\ agentOutcome' = "len TypeError"
            /\ effects' = OnAgentError(effects)
            /\ ProcReturn
            /\ UNCHANGED agentRequest
       ELSE \E out \in AgentOutcomes :
              /\ agentOutcome' = out
              /\ effects' = CASE AgentException(out) \in CaughtAgent ->
                                     OnAgentError(effects \cup {"agent"})
                                [] AgentException(out) = "none" ->
                                     OnAgentResponse(effects \cup {"agent"})
                                [] OTHER -> effects \cup {"agent"}
              /\ agentRequest' = [message |-> message_text, source |-> "signal",
                                  sender |-> event_data.sourceNumber]
              /\ IF AgentException(out) \in CaughtAgent \cup {"none"}
                   THEN ProcReturn
                   ELSE ProcRaise
  /\ UNCHANGED <<exitKind, daemon, signals, elapsed, waitResult, healthOk,
                 gatewayUp, stt_config, connects, connStatus, lastRead,
                 streamEnd, dropped, event_data, message_text, attLeft,
                 nTranscribe, nAudio, counterVars, gatewayVars>>
  /\ UNCHANGED convertVars
  /\ UNCHANGED coderVars
  /\ UNCHANGED transcribeVars
  /\ UNCHANGED runnerVars

ProcInit ==
  /\ ppc = "idle"
  /\ event_data = Unread("None")
  /\ message_text = PyNone
  /\ attLeft = 0
  /\ effects = {}
  /\ agentOutcome = "none"
  /\ agentRequest = NoRequest
  /\ nTranscribe = 0
  /\ nAudio = 0
  /\ procResult = "none"

(* ======================= SendHandler.do_POST ========================== *)

\* A request: its path, whether int() accepts its Content-Length, what its
\* body is (no JSON text, bytes that are no UTF-8, JSON that is no object, an
\* object) and the members of the object.
Req(path, clen, body, recipient, message, attachment, filename) ==
  [path |-> path, content_length |-> clen, body |-> body,
   recipient |-> recipient, message |-> message, attachment |-> attachment,
   attachmentFilename |-> filename]

NoReq == Req("none", "none", "none", "none", "none", "none", "none")

Requests ==
  {Req("/other", "int", "dict", "+1", "str", "absent", "str"),
   Req("/send", "invalid", "dict", "+1", "str", "absent", "str")}
    \cup {Req("/send", "int", b, "+1", "str", "absent", "str") :
            b \in {"notjson", "undecodable", "nondict"}}
    \cup {Req("/send", "int", "dict", r, "str", "absent", "str") :
            r \in {"absent", "nonstr", ""}}
    \cup {Req("/send", "int", "dict", Stranger, "str", a, "str") :
            a \in {"absent", "b64"}}
    \cup {Req("/send", "int", "dict", r, "str", a, "str") :
            r \in AllowedNumbers, a \in {"nonstr", "badb64"}}
    \cup {Req("/send", "int", "dict", r, "str", a, "nonstr") :
            r \in AllowedNumbers, a \in {"absent", "b64"}}
    \cup {Req("/send", "int", "dict", r, m, a, "str") :
            r \in AllowedNumbers, m \in {"str", "nonstr"},
            a \in {"absent", "b64"}}

\* the checks without the allow-list: the variant against which C3 is checked
ValidateNoAllowList(req) ==
  CASE req.path # "/send" -> "404"
    [] req.content_length = "invalid" -> "crash"
    [] req.body = "notjson" -> "400"
    [] req.body \in {"undecodable", "nondict"} -> "crash"
    [] req.recipient \in {"absent", "nonstr", ""} -> "400"
    [] req.attachment = "nonstr" -> "400"
    [] req.attachmentFilename = "nonstr" -> "400"
    [] req.attachment = "badb64" -> "400"
    [] OTHER -> "pass"

\* lines 318-359: what the checks before the send answer; "pass" when all
\* are passed, "crash" when an exception nothing catches ends the handler
\* without an answer (ValueError from int(), UnicodeDecodeError from
\* json.loads, AttributeError from .get on a body that is no object)
Validate(req) ==
  CASE req.path # "/send" -> "404"
    [] req.content_length = "invalid" -> "crash"
    [] req.body = "notjson" -> "400"
    [] req.body \in {"undecodable", "nondict"} -> "crash"
    [] req.recipient \in {"absent", "nonstr", ""} -> "400"
    [] req.recipient \notin AllowedNumbers -> "403"
    [] req.attachment = "nonstr" -> "400"
    [] req.attachmentFilename = "nonstr" -> "400"
    [] req.attachment = "badb64" -> "400"
    [] OTHER -> "pass"

\* the server thread lives while the process does
GatewayAlive == gatewayUp /\ mpc # "exited"

\* a request arrives and is checked; a request that fails a check is answered
GatewayReceive ==
  /\ GatewayAlive
  /\ gpc = "idle"
  /\ requests < MaxRequests
  /\ requests' = requests + 1
  /\ \E req \in Requests :
       /\ request' = req
       /\ IF Validate(req) = "pass"
            THEN /\ response' = "none"
                 /\ gpc' = IF req.attachment = "absent" THEN "convert"
                           ELSE "materialize"
            ELSE /\ response' = Validate(req)
                 /\ gpc' = "answered"
  /\ UNCHANGED <<request_id, success, tempMade, tempFiles, rpcLog, rpcOutcome,
                 counterVars, mainVars, streamVars, procVars>>
  /\ UNCHANGED convertVars
  /\ UNCHANGED coderVars
  /\ UNCHANGED transcribeVars
  /\ UNCHANGED runnerVars

\* lines 360-363: the attachment is written to a NamedTemporaryFile
\* (delete=False); creating it or writing it can raise OSError (-> 500)
GatewayMaterialize ==
  /\ GatewayAlive
  /\ gpc = "materialize"
  /\ \E result \in {"written", "write OSError", "create OSError"} :
       /\ tempMade' = (result # "create OSError")
       /\ tempFiles' = IF result = "create OSError" THEN tempFiles
                       ELSE tempFiles + 1
       /\ IF result = "written"
            THEN gpc' = "alloc" /\ UNCHANGED response
            ELSE gpc' = "answered" /\ response' = "500"
  /\ UNCHANGED <<request, requests, request_id, success, rpcLog, rpcOutcome,
                 counterVars, mainVars, streamVars, procVars>>
  /\ UNCHANGED convertVars
  /\ UNCHANGED coderVars
  /\ UNCHANGED transcribeVars
  /\ UNCHANGED runnerVars

\* line 374: convert_markdown(message_text); a message that is no str makes
\* the parser raise an exception the handler does not catch
GatewayConvert ==
  /\ GatewayAlive
  /\ gpc = "convert"
  /\ IF request.message = "str"
       THEN gpc' = "alloc" /\ UNCHANGED response
       ELSE gpc' = "answered" /\ response' = "crash"
  /\ UNCHANGED <<request, requests, request_id, success, tempFiles, tempMade,
                 rpcLog, rpcOutcome, counterVars, mainVars, streamVars,
                 procVars>>
  /\ UNCHANGED convertVars
  /\ UNCHANGED coderVars
  /\ UNCHANGED transcribeVars
  /\ UNCHANGED runnerVars

\* request_counter.next() is called (the argument of the send call)
GatewayAlloc ==
  /\ GatewayAlive
  /\ gpc = "alloc"
  /\ gpc' = "next"
  /\ cpc' = [cpc EXCEPT !["gateway"] = "acquire"]
  /\ calls' = [calls EXCEPT !["gateway"] = @ + 1]
  /\ UNCHANGED <<value, lock, ctmp, cret, returned, gatewayVarsButPc,
                 mainVars, streamVars, procVars>>
  /\ UNCHANGED convertVars
  /\ UNCHANGED coderVars
  /\ UNCHANGED transcribeVars
  /\ UNCHANGED runnerVars

\* the server thread runs next()
GatewayNext ==
  /\ GatewayAlive
  /\ gpc = "next"
  /\ \/ NextAcquire("gateway")
     \/ NextLoad("gateway")
     \/ NextStore("gateway")
     \/ NextReturn("gateway")
  /\ UNCHANGED <<gatewayVars, mainVars, streamVars, procVars>>
  /\ UNCHANGED convertVars
  /\ UNCHANGED coderVars
  /\ UNCHANGED transcribeVars
  /\ UNCHANGED runnerVars

\* What the send RPC can end with: 200 without / with an error member,
\* another status, and the exceptions of a failed call: the daemon cannot be
\* reached or the connection times out (OSError), the body of a 200 is no JSON
\* text (JSONDecodeError) or no UTF-8 (UnicodeDecodeError) or a JSON number
\* (TypeError from `in`), the HTTP exchange breaks off (HTTPException).
RpcOutcomes == {"ok", "error", "status", "OSError", "JSONDecodeError",
                "HTTPException", "UnicodeDecodeError", "TypeError"}

\* send_signal_message / send_signal_message_with_attachment: True, False,
\* or the exception raised
SendResult(out) ==
  CASE out = "ok" -> "true"
    [] out \in {"error", "status"} -> "false"
    [] OTHER -> out

\* except (OSError, RuntimeError, json.JSONDecodeError) at line 376
CaughtSend == {"OSError", "RuntimeError", "JSONDecodeError"}

\* every failed send answered 502: the variant against which C13 is checked
AnswerFailure502(result) ==
  CASE result = "true" -> "200"
    [] result = "false" -> "502"
    [] result \in CaughtSend -> "502"
    [] OTHER -> "crash"

\* lines 376-388: the answer for a result of the send
Answer(result) ==
  CASE result = "true" -> "200"
    [] result = "false" -> "502"
    [] result \in CaughtSend -> "500"
    [] OTHER -> "crash"

\* lines 364-388: the RPC is sent with the allocated id; the temporary file,
\* if any, is unlinked in the finally block (a failing unlink is logged and
\* the file stays); the request is answered
GatewayRpc ==
  /\ GatewayAlive
  /\ gpc = "next"
  /\ cpc["gateway"] = "idle"
  /\ request_id' = cret["gateway"]
  /\ rpcLog' = Append(rpcLog,
       [recipient |-> request.recipient, id |-> cret["gateway"],
        attachment |-> tempMade,
        textStyle |-> (~tempMade)])
  /\ \E out \in RpcOutcomes :
       /\ rpcOutcome' = out
       /\ success' = SendResult(out)
       /\ response' = Answer(SendResult(out))
  /\ \E unlinked \in BOOLEAN :
       tempFiles' = IF tempMade /\ unlinked THEN tempFiles - 1 ELSE tempFiles
  /\ gpc' = "answered"
  /\ UNCHANGED <<request, requests, tempMade, counterVars, mainVars,
                 streamVars, procVars>>
  /\ UNCHANGED convertVars
  /\ UNCHANGED coderVars
  /\ UNCHANGED transcribeVars
  /\ UNCHANGED runnerVars

\* do_POST is over (answered, or ended by an exception): the handler object
\* of the request is discarded and the server waits for the next request
GatewayReturn ==
  /\ GatewayAlive
  /\ gpc = "answered"
  /\ gpc' = "idle"
  /\ request' = NoReq
  /\ response' = "none"
  /\ request_id' = 0
  /\ success' = "unset"
  /\ tempMade' = FALSE
  /\ rpcOutcome' = "none"
  /\ UNCHANGED <<requests, tempFiles, rpcLog, counterVars, mainVars,
                 streamVars, procVars>>
  /\ UNCHANGED convertVars
  /\ UNCHANGED coderVars
  /\ UNCHANGED transcribeVars
  /\ UNCHANGED runnerVars

GatewayInit ==
  /\ gpc = "idle"
  /\ request = NoReq
  /\ requests = 0
  /\ response = "none"
  /\ request_id = 0
  /\ success = "unset"
  /\ tempFiles = 0
  /\ tempMade = FALSE
  /\ rpcLog = <<>>
  /\ rpcOutcome = "none"

(* ========================== convert_markdown =========================== *)

\* the _Converter object of __init__: no text, no styles
NewConverter == [text |-> <<>>, styles |-> <<>>]

\* convert_markdown is not being called
NoInput == [given |-> FALSE, text |-> <<>>]
ConvertIdle ==
  /\ kpc = "idle"
  /\ ast = <<>>
  /\ walked = 0
  /\ converter = NewConverter
  /\ plain_text = <<>>
  /\ text_styles = <<>>
  /\ input = NoInput

\* a string is the sequence of its characters: the characters U+0020..U+007E
\* in code-point order (the quote, the backslash and the backquote named by
\* their code points), U+000A, and two characters beyond ASCII named by their code points
Printable ==
  <<
   " ", "!", "U+0022", "#", "$", "%", "&", "'", "(", ")", "*", "+",
   ",", "-", ".", "/", "0", "1", "2", "3", "4", "5", "6", "7",
   "8", "9", ":", ";", "<", "=", ">", "?", "@", "A", "B", "C",
   "D", "E", "F", "G", "H", "I", "J", "K", "L", "M", "N", "O",
   "P", "Q", "R", "S", "T", "U", "V", "W", "X", "Y", "Z", "[",
   "U+005C", "]", "^", "_", "U+0060", "a", "b", "c", "d", "e", "f", "g",
   "h", "i", "j", "k", "l", "m", "n", "o", "p", "q", "r", "s",
   "t", "u", "v", "w", "x", "y", "z", "{", "|", "}", "~">>
code_points ==
  [c \in {Printable[i] : i \in DOMAIN Printable} |->
     31 + (CHOOSE i \in DOMAIN Printable : Printable[i] = c)]
    @@ ("\n" :> 10) @@ ("U+00E9" :> 233) @@ ("U+1F600" :> 128512)

\* ord(character)
ord(character) == code_points[character]

\* a length that counts characters, not UTF-16 code units: the variant
\* against which C18 is checked
utf16_length_chars(text) == Len(text)

\* utf16_length: 2 for a character at or above U+10000, 1 for any other
RECURSIVE utf16_length(_)
utf16_length(text) ==
  IF text = <<>> THEN 0
  ELSE (IF ord(Head(text)) >= 65536 THEN 2 ELSE 1) + utf16_length(Tail(text))

\* str.endswith
endswith(text, suffix) ==
  /\ Len(text) >= Len(suffix)
  /\ SubSeq(text, Len(text) - Len(suffix) + 1, Len(text)) = suffix

\* str.rstrip("\n")
RECURSIVE rstrip_newlines(_)
rstrip_newlines(text) ==
  IF text # <<>> /\ text[Len(text)] = "\n"
    THEN rstrip_newlines(SubSeq(text, 1, Len(text) - 1))
    ELSE text

\* str(n) for n >= 0
RECURSIVE str(_)
str(n) ==
  IF n < 10 THEN <<Printable[17 + n]>>
  ELSE str(n \div 10) \o <<Printable[17 + (n % 10)]>>

\* _Converter._utf16_offset
utf16_offset(self) == utf16_length(self.text)

\* _Converter._append
append(self, fragment) == [self EXCEPT !.text = @ \o fragment]

\* a style annotation; the code writes it as the string "start:length:style"
Span(start, length, style) == [start |-> start, length |-> length, style |-> style]

\* _Converter._apply_style
apply_style(self, style, start_offset) ==
  LET length == utf16_length(self.text) - start_offset
  IN  IF length > 0
        THEN [self EXCEPT !.styles = Append(@, Span(start_offset, length, style))]
        ELSE self

\* the start of a block (lines 98-102, 107-111, 128-132, 160-164, 204-208):
\* text already there is followed by a blank line
blank_line_before(self) ==
  IF self.text # <<>> /\ ~endswith(self.text, <<"\n", "\n">>)
    THEN IF endswith(self.text, <<"\n">>)
           THEN append(self, <<"\n">>)
           ELSE append(self, <<"\n", "\n">>)
    ELSE self

\* the style of a strong, emphasis or strikethrough node (lines 62-67)
StyleOf(node_type) ==
  CASE node_type = "strong" -> "BOLD"
    [] node_type = "emphasis" -> "ITALIC"
    [] node_type = "strikethrough" -> "STRIKETHROUGH"

RECURSIVE walk_nodes(_, _), walk_node(_, _), walk_list_item(_, _),
          handle_nested_list(_, _)

\* _Converter._handle_paragraph
handle_paragraph(self, node) ==
  append(walk_nodes(blank_line_before(self), node.children), <<"\n", "\n">>)

\* a heading that gets no style: the variant against which C20 is checked
handle_heading_plain(self, node) ==
  append(walk_nodes(blank_line_before(self), node.children), <<"\n", "\n">>)

\* _Converter._handle_heading
handle_heading(self, node) ==
  LET before == blank_line_before(self)
      start == utf16_offset(before)
  IN  append(apply_style(walk_nodes(before, node.children), "BOLD", start),
             <<"\n", "\n">>)

\* a styled node whose span starts at 0: the variant against which C19 is
\* checked
handle_styled_inline_from_zero(self, node, style) ==
  apply_style(walk_nodes(self, node.children), style, 0)

\* _Converter._handle_styled_inline
handle_styled_inline(self, node, style) ==
  LET start == utf16_offset(self)
  IN  apply_style(walk_nodes(self, node.children), style, start)

\* _Converter._handle_codespan
handle_codespan(self, node) ==
  LET start == utf16_offset(self)
  IN  apply_style(append(self, node.raw), "MONOSPACE", start)

\* _Converter._handle_block_code
handle_block_code(self, node) ==
  LET before == blank_line_before(self)
      start == utf16_offset(before)
  IN  append(apply_style(append(before, rstrip_newlines(node.raw)),
                         "MONOSPACE", start),
             <<"\n", "\n">>)

\* a link that is always written as "text (url)": the variant against which
\* C28 is checked
handle_link_text_and_url(self, node) ==
  append(self, walk_nodes(NewConverter, node.children).text
                 \o <<" ", "(">> \o node.url \o <<")">>)

\* a link whose text is walked in place, so that the spans of the styled
\* nodes in it are kept: the variant against which C35 is checked
handle_link_in_place(self, node) ==
  LET walked_text == walk_nodes(self, node.children)
  IN  append(walked_text, <<" ", "(">> \o node.url \o <<")">>)

\* _Converter._handle_link: the link text is collected with text and styles
\* set aside, and both are put back
handle_link(self, node) ==
  LET link_text == walk_nodes(NewConverter, node.children).text
  IN  IF link_text = <<>> \/ link_text = node.url
        THEN append(self, node.url)
        ELSE append(self, link_text \o <<" ", "(">> \o node.url \o <<")">>)

\* _Converter._handle_image
handle_image(self, node) == append(self, node.url)

\* the loop over the items of a list (lines 167-173 and 195-201)
RECURSIVE list_items(_, _, _, _, _)
list_items(self, items, index, node, indent) ==
  IF index > Len(items) THEN self
  ELSE LET start_index == IF node.start = 0 THEN 1 ELSE node.start
           prefix == IF node.ordered
                       THEN indent \o str(start_index + (index - 1)) \o <<".", " ">>
                       ELSE indent \o <<"-", " ">>
       IN  list_items(walk_list_item(append(self, prefix), items[index]),
                      items, index + 1, node, indent)

\* _Converter._handle_list
handle_list(self, node) ==
  append(list_items(blank_line_before(self), node.children, 1, node, <<>>),
         <<"\n">>)

\* the loop over the children of a list item (lines 179-188)
RECURSIVE list_item_children(_, _)
list_item_children(self, children) ==
  IF children = <<>> THEN self
  ELSE LET child == Head(children)
           after ==
             CASE child.type = "paragraph" -> walk_nodes(self, child.children)
               [] child.type = "list" ->
                    handle_nested_list(append(self, <<"\n">>), child)
               [] OTHER -> walk_node(self, child)
       IN  list_item_children(after, Tail(children))

\* _Converter._walk_list_item
walk_list_item(self, node) ==
  append(list_item_children(self, node.children), <<"\n">>)

\* _Converter._handle_nested_list
handle_nested_list(self, node) ==
  list_items(self, node.children, 1, node, <<" ", " ">>)

\* _Converter._handle_block_quote
handle_block_quote(self, node) ==
  LET inner == walk_nodes(blank_line_before(self), node.children)
  IN  IF endswith(inner.text, <<"\n", "\n">>) THEN inner
      ELSE IF endswith(inner.text, <<"\n">>)
             THEN append(inner, <<"\n">>)
             ELSE append(inner, <<"\n", "\n">>)

\* _Converter._handle_thematic_break
handle_thematic_break(self) ==
  LET before == IF self.text # <<>> /\ ~endswith(self.text, <<"\n">>)
                  THEN append(self, <<"\n">>)
                  ELSE self
  IN  append(before, <<"-", "-", "-", "\n", "\n">>)

\* _Converter._walk_node
walk_node(self, node) ==
  CASE node.type = "paragraph" -> handle_paragraph(self, node)
    [] node.type = "heading" -> handle_heading(self, node)
    [] node.type \in {"strong", "emphasis", "strikethrough"} ->
         handle_styled_inline(self, node, StyleOf(node.type))
    [] node.type = "codespan" -> handle_codespan(self, node)
    [] node.type = "block_code" -> handle_block_code(self, node)
    [] node.type = "text" -> append(self, node.raw)
    [] node.type \in {"softbreak", "linebreak"} -> append(self, <<"\n">>)
    [] node.type = "link" -> handle_link(self, node)
    [] node.type = "image" -> handle_image(self, node)
    [] node.type = "list" -> handle_list(self, node)
    [] node.type = "block_quote" -> handle_block_quote(self, node)
    [] node.type = "thematic_break" -> handle_thematic_break(self)
    [] node.type = "blank_line" -> self
    [] OTHER -> walk_nodes(self, node.children)

\* _Converter.walk_nodes
walk_nodes(self, nodes) ==
  IF nodes = <<>> THEN self
  ELSE walk_nodes(walk_node(self, Head(nodes)), Tail(nodes))

(* ---- the document trees the parser hands to the walker ---- *)

\* a node of the tree: its type, and the members the walker reads (raw,
\* children, attrs.url or attrs.src, attrs.ordered, attrs.start -- 0 when the
\* list has no start)
Node(type, raw, children, url, ordered, start) ==
  [type |-> type, raw |-> raw, children |-> children, url |-> url,
   ordered |-> ordered, start |-> start]
Text(raw) == Node("text", raw, <<>>, <<>>, FALSE, 0)
Styled(type, children) == Node(type, <<>>, children, <<>>, FALSE, 0)
Codespan(raw) == Node("codespan", raw, <<>>, <<>>, FALSE, 0)
InlineHtml == Node("inline_html", <<"<", "b", "r", ">">>, <<>>, <<>>, FALSE, 0)
Link(children, url) == Node("link", <<>>, children, url, FALSE, 0)
Image(src) == Node("image", <<>>, <<>>, src, FALSE, 0)
Softbreak == Node("softbreak", <<>>, <<>>, <<>>, FALSE, 0)
Linebreak == Node("linebreak", <<>>, <<>>, <<>>, FALSE, 0)
Paragraph(children) == Node("paragraph", <<>>, children, <<>>, FALSE, 0)
BlockText(children) == Node("block_text", <<>>, children, <<>>, FALSE, 0)
Heading(children) == Node("heading", <<>>, children, <<>>, FALSE, 0)
BlockCode(raw) == Node("block_code", raw, <<>>, <<>>, FALSE, 0)
ThematicBreak == Node("thematic_break", <<>>, <<>>, <<>>, FALSE, 0)
BlankLine == Node("blank_line", <<>>, <<>>, <<>>, FALSE, 0)
ListItem(children) == Node("list_item", <<>>, children, <<>>, FALSE, 0)
List(ordered, start, items) == Node("list", <<>>, items, <<>>, ordered, start)
BlockQuote(children) == Node("block_quote", <<>>, children, <<>>, FALSE, 0)

StyledTypes == {"strong", "emphasis", "strikethrough"}
Url == <<"h", ":", "x">>
Emoji == "U+1F600"

\* inline nodes without styled children: text (ASCII, and with a character
\* beyond the BMP), inline code, raw HTML (a type the walker does not know),
\* links (with a text, with the URL as text, with styled text), an image
PlainLeaves ==
  {Text(<<"a">>), Text(<<Emoji, "b", "o", "l", "d">>), Codespan(<<"c">>),
   InlineHtml, Link(<<Text(<<"t">>)>>, Url)}
Leaves ==
  PlainLeaves \cup
    {Link(<<Text(Url)>>, Url),
     Link(<<>>, Url),
     Link(<<Styled("strong", <<Text(<<"t">>)>>)>>, Url), Image(Url)}
\* styled nodes: around one leaf (around raw HTML the content is empty), and
\* around a text followed by a node of another style
StyledLeaves ==
  {Styled(t, <<l>>) :
     t \in StyledTypes,
     l \in {Text(<<"a">>), Text(<<Emoji, "b", "o", "l", "d">>), InlineHtml}}
    \cup {Styled("strong", <<Codespan(<<"c">>)>>),
          Styled("emphasis", <<Link(<<Text(<<"t">>)>>, Url)>>)}
StyledNested ==
  {Styled(t[1], <<Text(<<"a">>), Styled(t[2], <<Text(<<Emoji, "b", "o", "l", "d">>)>>)>>) :
     t \in {<<"strong", "emphasis">>, <<"emphasis", "strikethrough">>,
            <<"strikethrough", "strong">>}}
\* "*a" / "<br>*": the content of the node ends with a soft break, because
\* the raw HTML after the break renders nothing
StyledBreak == Styled("emphasis", <<Text(<<"a">>), Softbreak, InlineHtml>>)
StyledNodes == StyledLeaves \cup StyledNested \cup {StyledBreak}

\* the children of a paragraph: one inline node, or one of a few longer runs
\* ("**bold** and *italic*"; text with wide characters before a style; lines
\* joined by a soft and by a hard break)
Runs ==
  {<<n>> : n \in Leaves \cup StyledNodes}
    \cup {<<Styled("strong", <<Text(<<"b", "o", "l", "d">>)>>),
            Text(<<" ", "a", "n", "d", " ">>),
            Styled("emphasis", <<Text(<<"i", "t", "a", "l", "i", "c">>)>>)>>,
          <<Text(<<"U+00E9", Emoji>>), Styled("strong", <<Text(<<"a">>)>>)>>,
          <<Text(<<"a">>), Softbreak, Text(<<"b">>)>>,
          <<Text(<<"a">>), Linebreak, Styled("emphasis", <<Text(<<"b">>)>>)>>,
          <<Text(<<"B", "o", "d", "y">>)>>}

Headings ==
  {Heading(<<Text(<<"T", "i", "t", "l", "e">>)>>),
   Heading(<<Text(<<"a">>), Styled("emphasis", <<Text(<<Emoji>>)>>)>>),
   Heading(<<InlineHtml>>),
   Heading(<<>>)}

Lists ==
  {List(FALSE, 0, <<ListItem(<<BlockText(<<Text(<<"a">>)>>)>>),
                    ListItem(<<BlockText(<<Text(<<"b">>)>>)>>)>>),
   List(TRUE, 9, <<ListItem(<<Paragraph(<<Text(<<"a">>)>>)>>),
                   ListItem(<<Paragraph(<<Styled("strong", <<Text(<<"b">>)>>)>>)>>)>>),
   List(TRUE, 0, <<ListItem(<<BlockText(<<Text(<<"a">>)>>)>>)>>),
   List(FALSE, 0,
        <<ListItem(<<BlockText(<<Text(<<"a">>)>>),
                     List(FALSE, 0, <<ListItem(<<BlockText(<<Text(<<"b">>)>>)>>)>>)>>)>>),
   List(FALSE, 0,
        <<ListItem(<<BlockText(<<Text(<<"a">>)>>),
                     List(TRUE, 0, <<ListItem(<<BlockText(<<Text(<<"b">>)>>)>>),
                                     ListItem(<<BlockText(<<Text(<<"c">>)>>)>>)>>)>>),
          ListItem(<<BlockText(<<Text(<<"d">>)>>)>>)>>)}

BlockQuotes ==
  {BlockQuote(<<Paragraph(<<Text(<<"a">>)>>)>>),
   BlockQuote(<<BlockQuote(<<Paragraph(<<Styled("emphasis", <<Text(<<"a">>)>>)>>)>>)>>)}

Blocks ==
  {Paragraph(run) : run \in Runs}
    \cup Headings \cup Lists \cup BlockQuotes
    \cup {BlockCode(<<"c", "\n">>), BlockCode(<<>>), ThematicBreak,
          BlockCode(<<"c", "\n", "\n", "\n", "d", "\n">>),
          BlockCode(<<" ", "c", "\n">>)}

\* the blocks of the longer documents; the parser puts a blank_line node
\* where a blank line separates two blocks in the source
CoreBlocks ==
  {Paragraph(<<Text(<<"B", "o", "d", "y">>)>>),
   Paragraph(<<StyledBreak>>),
   Heading(<<Text(<<"T", "i", "t", "l", "e">>)>>),
   List(FALSE, 0, <<ListItem(<<BlockText(<<Text(<<"a">>)>>)>>),
                    ListItem(<<BlockText(<<Text(<<"b">>)>>)>>)>>),
   BlockCode(<<"c", "\n">>),
   ThematicBreak,
   BlankLine}

\* a list, a blank line and a paragraph
ListThenBody ==
  {<<l, BlankLine, Paragraph(<<Text(<<"B", "o", "d", "y">>)>>)>> : l \in Lists}

\* the documents: every block alone, every list before a paragraph, and up to
\* MaxBlocks of the core blocks
Documents ==
  {<<b>> : b \in Blocks} \cup ListThenBody
    \cup UNION {[1 .. n -> CoreBlocks] : n \in 0 .. MaxBlocks}

(* ---- the parser, on text without markdown syntax ---- *)

\* letters A-Z and a-z
Letters == {Printable[i] : i \in (34 .. 59) \cup (66 .. 91)}

\* text in which nothing is markup: letters, characters outside ASCII, single
\* spaces inside a line, newlines; no line indented by four spaces (indented
\* code) and none ending in two spaces (hard break)
RECURSIVE split_lines(_)
split_lines(text) ==
  IF \A i \in DOMAIN text : text[i] # "\n" THEN <<text>>
  ELSE LET at == CHOOSE i \in DOMAIN text :
                   /\ text[i] = "\n"
                   /\ \A j \in 1 .. (i - 1) : text[j] # "\n"
       IN  <<SubSeq(text, 1, at - 1)>> \o split_lines(SubSeq(text, at + 1, Len(text)))

no_markdown_syntax(text) ==
  /\ \A i \in DOMAIN text : text[i] \in Letters \cup {" ", "\n", "U+00E9", Emoji}
  /\ \A l \in DOMAIN split_lines(text) :
       LET line == split_lines(text)[l]
       IN  /\ ~(Len(line) >= 4 /\ SubSeq(line, 1, 4) = <<" ", " ", " ", " ">>)
           /\ ~(Len(line) >= 2 /\ line[Len(line)] = " " /\ line[Len(line) - 1] = " ")

\* a line without the spaces around it
RECURSIVE strip_spaces(_)
strip_spaces(line) ==
  IF line # <<>> /\ Head(line) = " " THEN strip_spaces(Tail(line))
  ELSE IF line # <<>> /\ line[Len(line)] = " "
    THEN strip_spaces(SubSeq(line, 1, Len(line) - 1))
    ELSE line

\* the blocks of such a text: the lines between blank lines are one paragraph,
\* each line a text node without the spaces around it, two lines joined by
\* a softbreak; blank lines leave a blank_line node after the paragraph
RECURSIVE paragraphs(_, _)
paragraphs(lines, children) ==
  LET closed == IF children = <<>> THEN <<>> ELSE <<Paragraph(children)>>
  IN  IF lines = <<>> THEN closed
      ELSE LET line == strip_spaces(Head(lines))
           IN  IF line = <<>>
                 THEN closed \o (IF children = <<>> THEN <<>> ELSE <<BlankLine>>)
                        \o paragraphs(Tail(lines), <<>>)
                 ELSE paragraphs(Tail(lines),
                                 IF children = <<>> THEN <<Text(line)>>
                                 ELSE children \o <<Softbreak, Text(line)>>)

\* md(text) for a text without markdown syntax
md(text) == paragraphs(split_lines(text), <<>>)

(* ---- convert_markdown ---- *)

\* converter.walk_nodes(ast), one top-level node at a time
WalkTopNode ==
  /\ kpc = "walk"
  /\ walked < Len(ast)
  /\ converter' = walk_node(converter, ast[walked + 1])
  /\ walked' = walked + 1
  /\ UNCHANGED <<kpc, ast, plain_text, text_styles, input>>
  /\ UNCHANGED <<counterVars, mainVars, streamVars, procVars, gatewayVars,
                 coderVars, transcribeVars, runnerVars>>

\* plain_text = converter.text.rstrip("\n"); return plain_text, converter.styles
ConvertReturn ==
  /\ kpc = "walk"
  /\ walked = Len(ast)
  /\ plain_text' = rstrip_newlines(converter.text)
  /\ text_styles' = converter.styles
  /\ kpc' = "returned"
  /\ UNCHANGED <<ast, walked, converter, input>>
  /\ UNCHANGED <<counterVars, mainVars, streamVars, procVars, gatewayVars,
                 coderVars, transcribeVars, runnerVars>>

\* convert_markdown(plain_text): the text a conversion returned, free of
\* markdown syntax, is converted again
ConvertPlainText ==
  /\ kpc = "returned"
  /\ ~input.given
  /\ no_markdown_syntax(plain_text)
  /\ input' = [given |-> TRUE, text |-> plain_text]
  /\ ast' = md(plain_text)
  /\ converter' = NewConverter
  /\ walked' = 0
  /\ kpc' = "walk"
  /\ plain_text' = <<>>
  /\ text_styles' = <<>>
  /\ UNCHANGED <<counterVars, mainVars, streamVars, procVars, gatewayVars,
                 coderVars, transcribeVars, runnerVars>>

\* do_POST has called convert_markdown for a request without attachment, and
\* the parser has returned the tree
ConvertInit ==
  /\ kpc = "walk"
  /\ ast \in Documents
  /\ walked = 0
  /\ converter = NewConverter
  /\ plain_text = <<>>
  /\ text_styles = <<>>
  /\ input = NoInput

(* ============================ coder server ============================ *)

(* src/coder/server.py: a ThreadingHTTPServer, so every request is handled  *)
(* by a thread of its own; an accepted POST /code starts one more thread,   *)
(* which runs run_coding_task.  All of them share _claude_lock and          *)
(* _claude_running.                                                         *)

Handlers == 1 .. MaxCoderRequests

\* who holds _claude_lock: nobody, the handler of a request, or its task
Nobody == [kind |-> "none", id |-> 0]
HandlerOf(h) == [kind |-> "handler", id |-> h]
TaskOf(h) == [kind |-> "task", id |-> h]

\* lines 131-138: the path is tested, the body read and decoded; a body that
\* is no JSON object with taskId and message raises and the handler ends
\* without an answer; another path is answered 404 (line 160)
CoderReceive(h) ==
  /\ hpc[h] = "idle"
  /\ \E kind \in {"code", "other path", "bad body"} :
       CASE kind = "code" ->
              /\ hpc' = [hpc EXCEPT ![h] = "lock"]
              /\ UNCHANGED sent
         [] kind = "other path" ->
              /\ hpc' = [hpc EXCEPT ![h] = "done"]
              /\ sent' = [sent EXCEPT ![h] = "404"]
         [] kind = "bad body" ->
              /\ hpc' = [hpc EXCEPT ![h] = "raised"]
              /\ UNCHANGED sent
  /\ UNCHANGED <<claude_lock, claude_running, tpc, bridgeVars>>

\* a handler that goes on to the test of the flag without the lock: the
\* variant against which C30 is checked
CoderAcquireNoLock(h) ==
  /\ hpc[h] = "lock"
  /\ hpc' = [hpc EXCEPT ![h] = "check"]
  /\ UNCHANGED <<claude_lock, claude_running, sent, tpc, bridgeVars>>

\* with _claude_lock: (line 140) -- blocks until the lock is free
CoderAcquire(h) ==
  /\ hpc[h] = "lock"
  /\ claude_lock = Nobody
  /\ claude_lock' = HandlerOf(h)
  /\ hpc' = [hpc EXCEPT ![h] = "check"]
  /\ UNCHANGED <<claude_running, sent, tpc, bridgeVars>>

\* if _claude_running: send 409 and return, which leaves the with block
\* (lines 142-148)
CoderCheck(h) ==
  /\ hpc[h] = "check"
  /\ IF claude_running
       THEN /\ sent' = [sent EXCEPT ![h] = "409"]
            /\ hpc' = [hpc EXCEPT ![h] = "done"]
            /\ claude_lock' = IF claude_lock = HandlerOf(h) THEN Nobody ELSE claude_lock
       ELSE /\ hpc' = [hpc EXCEPT ![h] = "set"]
            /\ UNCHANGED <<sent, claude_lock>>
  /\ UNCHANGED <<claude_running, tpc, bridgeVars>>

\* _claude_running = True, and the with block is left (line 149)
CoderSet(h) ==
  /\ hpc[h] = "set"
  /\ claude_running' = TRUE
  /\ claude_lock' = IF claude_lock = HandlerOf(h) THEN Nobody ELSE claude_lock
  /\ hpc' = [hpc EXCEPT ![h] = "start"]
  /\ UNCHANGED <<sent, tpc, bridgeVars>>

\* thread.start() (lines 151-156): the task thread exists, or no thread can
\* be started (RuntimeError) and the handler ends without an answer
CoderStart(h) ==
  /\ hpc[h] = "start"
  /\ \/ /\ tpc' = [tpc EXCEPT ![h] = "env"]
        /\ hpc' = [hpc EXCEPT ![h] = "accept"]
     \/ /\ hpc' = [hpc EXCEPT ![h] = "start failed"]
        /\ UNCHANGED tpc
  /\ UNCHANGED <<claude_lock, claude_running, sent, bridgeVars>>

\* self._send_json(HTTPStatus.ACCEPTED, ...) (line 158)
CoderAccept(h) ==
  /\ hpc[h] = "accept"
  /\ sent' = [sent EXCEPT ![h] = "202"]
  /\ hpc' = [hpc EXCEPT ![h] = "done"]
  /\ UNCHANGED <<claude_lock, claude_running, tpc, bridgeVars>>

\* run_coding_task, lines 65-67, before the try: the environment file is read;
\* a missing file or a missing MODEL key raises and the thread ends there
TaskReadEnv(h) ==
  /\ tpc[h] = "env"
  /\ \/ tpc' = [tpc EXCEPT ![h] = "claude"]
     \/ tpc' = [tpc EXCEPT ![h] = "env failed"]
  /\ UNCHANGED <<claude_lock, claude_running, hpc, sent, bridgeVars>>

\* subprocess.run(["claude", ...]) and the reading of its output (lines
\* 70-106) come to their end: with a result, with the timeout, or with any
\* other exception, all of which lead into the finally block
TaskClaude(h) ==
  /\ tpc[h] = "claude"
  /\ tpc' = [tpc EXCEPT ![h] = "finally"]
  /\ UNCHANGED <<claude_lock, claude_running, hpc, sent, bridgeVars>>

\* finally: with _claude_lock: (line 108)
TaskAcquire(h) ==
  /\ tpc[h] = "finally"
  /\ claude_lock = Nobody
  /\ claude_lock' = TaskOf(h)
  /\ tpc' = [tpc EXCEPT ![h] = "clear"]
  /\ UNCHANGED <<claude_running, hpc, sent, bridgeVars>>

\* _claude_running = False, and the with block is left (line 109)
TaskClear(h) ==
  /\ tpc[h] = "clear"
  /\ claude_running' = FALSE
  /\ claude_lock' = Nobody
  /\ tpc' = [tpc EXCEPT ![h] = "post"]
  /\ UNCHANGED <<hpc, sent, bridgeVars>>

\* post_result(result_text, password) (lines 111-112): the result is posted,
\* or urlopen raises and the thread ends with the exception
TaskPost(h) ==
  /\ tpc[h] = "post"
  /\ \/ tpc' = [tpc EXCEPT ![h] = "done"]
     \/ tpc' = [tpc EXCEPT ![h] = "post failed"]
  /\ UNCHANGED <<claude_lock, claude_running, hpc, sent, bridgeVars>>

\* the module is loaded: the lock is free, the flag False (lines 20-21), no
\* request has arrived
CoderInit ==
  /\ claude_lock = Nobody
  /\ claude_running = FALSE
  /\ hpc = [h \in Handlers |-> "idle"]
  /\ sent = [h \in Handlers |-> "none"]
  /\ tpc = [h \in Handlers |-> "none"]

(* =========================== transcribe_audio ========================== *)

(* transcribe_audio (bridge.py, lines 153-174) and convert_audio_to_mp3      *)
(* (lines 124-150) taken step by step, with the temporary mp3 file they      *)
(* create.  ProcAttachment takes the same call as one step.                  *)

\* lines 118-121
SUPPORTED_AUDIO_TYPES ==
  {"audio/mpeg", "audio/mp3", "audio/mp4", "audio/m4a", "audio/mpga",
   "audio/wav", "audio/x-wav", "audio/webm"}

\* the content types of the attachments transcribe_audio is called with
ContentTypes == SUPPORTED_AUDIO_TYPES \cup {"audio/aac", "audio/ogg"}

\* transcribe_audio is called (line 479); a file an earlier call has not
\* deleted stays on disk
TranscribeCall ==
  /\ xpc \in {"idle", "returned", "raised"}
  /\ transcribes < MaxTranscribes
  /\ transcribes' = transcribes + 1
  /\ \E t \in ContentTypes : content_type' = t
  /\ mp3_left' = IF mp3 \in {"on disk", "unlink failed"} THEN mp3_left + 1
                 ELSE mp3_left
  /\ mp3' = "none"
  /\ converted_path' = "unset"
  /\ xresult' = "none"
  /\ xpc' = "convert"
  /\ UNCHANGED othersVars

\* convert_audio_to_mp3, lines 130-132: a supported type is not converted
ConvertSupported ==
  /\ xpc = "convert"
  /\ IF content_type \in SUPPORTED_AUDIO_TYPES
       THEN /\ converted_path' = "None"
            /\ xpc' = "transcribe"
       ELSE /\ xpc' = "tempfile"
            /\ UNCHANGED converted_path
  /\ UNCHANGED <<content_type, mp3, mp3_left, transcribes, xresult, othersVars>>

\* tempfile.NamedTemporaryFile(suffix=".mp3", delete=False) and close() (lines
\* 135-136): the file is on disk, or it could not be created (OSError)
ConvertTempFile ==
  /\ xpc = "tempfile"
  /\ \/ /\ mp3' = "on disk"
        /\ xpc' = "ffmpeg"
        /\ UNCHANGED xresult
     \/ /\ xresult' = "OSError"
        /\ xpc' = "raised"
        /\ UNCHANGED mp3
  /\ UNCHANGED <<content_type, converted_path, mp3_left, transcribes, othersVars>>

\* subprocess.run(["ffmpeg", ...]) (lines 137-140): ffmpeg cannot be launched
\* and run raises (FileNotFoundError, PermissionError: OSError), which leaves
\* convert_audio_to_mp3 and transcribe_audio at once; or it exits, with a
\* return code that is zero (lines 149-150) or not (line 141)
ConvertFfmpeg ==
  /\ xpc = "ffmpeg"
  /\ \E run \in {"not launched", "nonzero", "zero"} :
       CASE run = "not launched" ->
              /\ xresult' = "OSError"
              /\ xpc' = "raised"
              /\ UNCHANGED converted_path
         [] run = "nonzero" ->
              /\ xpc' = "failed"
              /\ UNCHANGED <<converted_path, xresult>>
         [] run = "zero" ->
              /\ converted_path' = "name"
              /\ xpc' = "transcribe"
              /\ UNCHANGED xresult
  /\ UNCHANGED <<content_type, mp3, mp3_left, transcribes, othersVars>>

\* os.unlink(path) inside try / except OSError: pass
unlink(file) == {"deleted", "unlink failed"}

\* lines 141-148: the file is unlinked and RuntimeError raised
ConvertFailed ==
  /\ xpc = "failed"
  /\ mp3' \in unlink(mp3)
  /\ xresult' = "RuntimeError"
  /\ xpc' = "raised"
  /\ UNCHANGED <<content_type, converted_path, mp3_left, transcribes, othersVars>>

\* return _transcribe_audio_file(actual_path, api_key, model) (line 170): the
\* text, or one of the exceptions of the request
TranscribeFile ==
  /\ xpc = "transcribe"
  /\ \E e \in ApiExceptions : xresult' = IF e = "none" THEN "text" ELSE e
  /\ xpc' = "finally"
  /\ UNCHANGED <<content_type, converted_path, mp3, mp3_left, transcribes,
                 othersVars>>

\* finally: if converted_path is not None: os.unlink(converted_path) (lines
\* 171-176); then the text is returned or the exception goes on
TranscribeFinally ==
  /\ xpc = "finally"
  /\ IF converted_path # "None" THEN mp3' \in unlink(mp3) ELSE UNCHANGED mp3
  /\ xpc' = IF xresult = "text" THEN "returned" ELSE "raised"
  /\ UNCHANGED <<content_type, converted_path, mp3_left, transcribes, xresult,
                 othersVars>>

\* no call of transcribe_audio has been made
TranscribeInit ==
  /\ xpc = "idle"
  /\ content_type = "none"
  /\ converted_path = "unset"
  /\ mp3 = "none"
  /\ mp3_left = 0
  /\ transcribes = 0
  /\ xresult = "none"

(* ============================= python-runner =========================== *)

(* run_script (src/python-runner/server.py, lines 34-132) taken step by     *)
(* step, with the temporary script file, the uv process and the signals     *)
(* sent to it.                                                              *)

\* What a request and its script can be like.  The code is a str that the
\* text file can encode or not (json.loads accepts a lone surrogate such as
\* "\ud800", which UTF-8 cannot encode); the script writes something or
\* nothing to stdout and stderr, and ends by itself within the 30 seconds
\* with an exit code, or on SIGTERM, or on SIGKILL only.
Scripts ==
  [encodable : BOOLEAN, stdout : {<<>>, <<"out">>}, stderr : {<<>>, <<"err">>},
   ends : {"in time", "on SIGTERM", "on SIGKILL"}, exit_code : {0, 1}]

NoResult == [kind |-> "none", text |-> <<>>]
Return(text) == [kind |-> "returned", text |-> text]
Raised == [kind |-> "raised", text |-> <<>>]

\* f"Process timed out after {TIMEOUT_SECONDS} seconds." (line 103)
timeout_message == "Process timed out after 30 seconds."

\* output += ("\n" if output else "") + message (lines 100, 104, 113)
add_line(output, message) ==
  output \o (IF output # <<>> THEN <<"\n">> ELSE <<>>) \o <<message>>

\* lines 94-127: the text run_script returns for what the process wrote, its
\* exit code, and timed_out
compose(stdout, stderr, exit_code, timedOut) ==
  LET output == IF stderr # <<>>
                  THEN add_line(stdout, "stderr:\n") \o stderr
                  ELSE stdout
  IN  IF timedOut
        THEN add_line(output, timeout_message)
        ELSE IF exit_code # 0
          THEN add_line(output, "Exit code: 1.")
          ELSE IF output = <<>> THEN <<"Script produced no output.">>
               ELSE output

\* lines 36-39: the pythonrunner user is looked up
RunGetIds ==
  /\ spc = "ids"
  /\ \/ /\ spc' = "tempfile"
        /\ UNCHANGED run_result
     \/ /\ spc' = "ended"
        /\ run_result' =
             Return(<<"Failed to spawn process: pythonrunner user not found.">>)
  /\ UNCHANGED <<script, script_file, uv_process, sent_signals, timed_out, restVars>>

\* lines 41-54: the temporary file is created (delete=False) and the script
\* written to it.  The file cannot be created (OSError) and nothing is on
\* disk; or it is created and write raises (UnicodeEncodeError for code the
\* file cannot encode, OSError for a full disk), which leaves the with block
\* and run_script with the file on disk; or the script is written
RunTempFile ==
  /\ spc = "tempfile"
  /\ \E disk \in {"ok", "no file", "full"} :
       CASE disk = "no file" ->
              /\ spc' = "ended"
              /\ run_result' = Raised
              /\ UNCHANGED script_file
         [] disk = "full" \/ (disk = "ok" /\ ~script.encodable) ->
              /\ spc' = "ended"
              /\ run_result' = Raised
              /\ script_file' = "on disk"
         [] disk = "ok" /\ script.encodable ->
              /\ spc' = "spawn"
              /\ script_file' = "on disk"
              /\ UNCHANGED run_result
  /\ UNCHANGED <<script, uv_process, sent_signals, timed_out, restVars>>

\* lines 68-81, inside the outer try: Popen starts uv, or raises OSError or
\* SubprocessError and the failure is returned as text
RunSpawn ==
  /\ spc = "spawn"
  /\ \/ /\ uv_process' = "running"
        /\ spc' = "communicate"
        /\ UNCHANGED run_result
     \/ /\ run_result' = Return(<<"Failed to spawn process: error">>)
        /\ spc' = "finally"
        /\ UNCHANGED uv_process
  /\ UNCHANGED <<script, script_file, sent_signals, timed_out, restVars>>

\* process.communicate(timeout=TIMEOUT_SECONDS) (lines 83-87): the process
\* has ended within the 30 seconds, or TimeoutExpired sets timed_out
RunCommunicate ==
  /\ spc = "communicate"
  /\ IF script.ends = "in time"
       THEN /\ uv_process' = "exited"
            /\ spc' = "compose"
            /\ UNCHANGED timed_out
       ELSE /\ timed_out' = TRUE
            /\ spc' = "term"
            /\ UNCHANGED uv_process
  /\ UNCHANGED <<script, script_file, sent_signals, run_result, restVars>>

\* process.send_signal(signal.SIGTERM) (line 88)
RunTerminate ==
  /\ spc = "term"
  /\ sent_signals' = Append(sent_signals, "SIGTERM")
  /\ spc' = "grace"
  /\ UNCHANGED <<script, script_file, uv_process, timed_out, run_result, restVars>>

\* process.communicate(timeout=SIGKILL_GRACE_SECONDS) (lines 89-90): the
\* process has ended within the 5 seconds, or TimeoutExpired
RunGrace ==
  /\ spc = "grace"
  /\ IF script.ends = "on SIGTERM"
       THEN /\ uv_process' = "exited"
            /\ spc' = "compose"
       ELSE /\ spc' = "kill"
            /\ UNCHANGED uv_process
  /\ UNCHANGED <<script, script_file, sent_signals, timed_out, run_result,
                 restVars>>

\* process.kill() and process.communicate() (lines 91-92)
RunKill ==
  /\ spc = "kill"
  /\ sent_signals' = Append(sent_signals, "SIGKILL")
  /\ uv_process' = "exited"
  /\ spc' = "compose"
  /\ UNCHANGED <<script, script_file, timed_out, run_result, restVars>>

\* lines 94-127: the text is put together and returned
RunCompose ==
  /\ spc = "compose"
  /\ run_result' = Return(compose(script.stdout, script.stderr,
                                  IF timed_out THEN 1 ELSE script.exit_code,
                                  timed_out))
  /\ spc' = "finally"
  /\ UNCHANGED <<script, script_file, uv_process, sent_signals, timed_out, restVars>>

\* finally: os.unlink(script_path) inside try / except OSError: pass (lines
\* 129-133)
RunFinally ==
  /\ spc = "finally"
  /\ script_file' \in {"deleted", "unlink failed"}
  /\ spc' = "ended"
  /\ UNCHANGED <<script, uv_process, sent_signals, timed_out, run_result, restVars>>

\* run_script has not been called
RunnerIdle ==
  /\ spc = "idle"
  /\ script = [encodable |-> TRUE, stdout |-> <<>>, stderr |-> <<>>,
               ends |-> "in time", exit_code |-> 0]
  /\ script_file = "none"
  /\ uv_process = "none"
  /\ sent_signals = <<>>
  /\ timed_out = FALSE
  /\ run_result = NoResult

\* run_script is called by do_POST (line 183) with code that is a str
RunnerInit ==
  /\ spc = "ids"
  /\ script \in Scripts
  /\ script_file = "none"
  /\ uv_process = "none"
  /\ sent_signals = <<>>
  /\ timed_out = FALSE
  /\ run_result = NoResult

(* ============================ specifications =========================== *)

(* The two threads share nothing but the RequestCounter and the allow-list, *)
(* which is read-only, and in this program only the server thread calls     *)
(* next(): no step of one thread reads or writes what a step of the other   *)
(* writes.  Each thread is therefore explored by a specification of its     *)
(* own, with the other thread standing still:                               *)
(*   Spec         the main thread, from the start of the daemon to the end  *)
(*                of the process (no request reaches the gateway);          *)
(*   SpecGateway  the server thread, main being blocked in readline or      *)
(*                inside an agent call of process_signal_event;             *)
(*   SpecCounter  RequestCounter.next() called from both threads;           *)
(*   SpecConvert  convert_markdown, a pure function of the document tree,   *)
(*                applied to every document of a bounded set;               *)
(*   SpecCoder    the coder server (src/coder/server.py), another process:  *)
(*                its handler threads and the task threads they start;      *)
(*   SpecTranscribe  transcribe_audio with its temporary file, step by step;*)
(*   SpecRunner   run_script of the python-runner, another process.         *)

Init ==
  /\ CounterInit /\ MainInit /\ StreamInit /\ ProcInit /\ GatewayInit
  /\ ConvertIdle /\ CoderInit /\ TranscribeInit
  /\ RunnerIdle

Next ==
  \/ StartSignalCli \/ MakeCounter \/ WaitPoll \/ WaitTimeout
  \/ StartHttpServer \/ Connect
  \/ ReadEof \/ ReadUndecodable \/ ReadLine \/ ReadBlank
  \/ ProcEnvelope \/ ProcAuthorize \/ ProcMessage \/ ProcAttachment
  \/ ProcTextCheck \/ ProcAgent
  \/ Interrupt \/ Terminate \/ GraceWait \/ Kill \/ Exit

Spec == Init /\ [][Next]_vars

\* main after start-up: the daemon runs, the gateway is up, the stream is open
Serving ==
  /\ mpc \in {"read", "process"}
  /\ pending = "none"
  /\ exitKind = "none"
  /\ daemon = "running"
  /\ signals = <<>>
  /\ elapsed = 0
  /\ waitResult = "ready"
  /\ healthOk = TRUE
  /\ gatewayUp = TRUE
  /\ stt_config = "None"
  /\ connects = 1
  /\ connStatus = "200"
  /\ streamEnd = "none"
  /\ dropped = "none"

\* main blocked in readline before the first line, or in the agent call made
\* for the message "hi" of an allowed sender
GatewayInitMain ==
  /\ Serving
  /\ \/ /\ mpc = "read"
        /\ lastRead = "none"
        /\ event_lines = <<>>
        /\ ProcInit
     \/ /\ mpc = "process"
        /\ lastRead = "blank"
        /\ event_lines = <<[field |-> "event", val |-> "receive"],
                           [field |-> "data", val |-> "{...}"]>>
        /\ ppc = "agent"
        /\ event_data = [payload |-> "{...}", envelope |-> "dict",
                         sourceNumber |-> "+1", dataMessage |-> "dict",
                         message |-> PyStr(<<"hi">>), attachments |-> "absent"]
        /\ message_text = PyStr(<<"hi">>)
        /\ attLeft = 0
        /\ effects = {}
        /\ agentOutcome = "none"
        /\ agentRequest = NoRequest
        /\ nTranscribe = 0
        /\ nAudio = 0
        /\ procResult = "none"

GatewayNextStep ==
  \/ GatewayReceive \/ GatewayMaterialize \/ GatewayConvert \/ GatewayAlloc
  \/ GatewayNext \/ GatewayRpc \/ GatewayReturn

InitGateway ==
  CounterInit /\ GatewayInitMain /\ GatewayInit /\ ConvertIdle /\ CoderInit /\ TranscribeInit
  /\ RunnerIdle

SpecGateway == InitGateway /\ [][GatewayNextStep]_vars

\* RequestCounter alone, called by both threads that hold a reference to it
CounterNext ==
  /\ \E t \in Threads :
       \/ CallNext(t)
       \/ NextAcquire(t)
       \/ NextLoad(t)
       \/ NextStore(t)
       \/ NextReturn(t)
  /\ UNCHANGED <<mainVars, streamVars, procVars, gatewayVars>>
  /\ UNCHANGED convertVars
  /\ UNCHANGED coderVars
  /\ UNCHANGED transcribeVars
  /\ UNCHANGED runnerVars

InitCounter ==
  /\ CounterInit /\ GatewayInitMain /\ GatewayInit /\ mpc = "read"
  /\ ConvertIdle /\ CoderInit /\ TranscribeInit
  /\ RunnerIdle

SpecCounter == InitCounter /\ [][CounterNext]_vars

\* the server thread inside convert_markdown (line 374) for its first request
InitConvert ==
  /\ CounterInit
  /\ GatewayInitMain
  /\ mpc = "read"
  /\ gpc = "convert"
  /\ request = Req("/send", "int", "dict", "+1", "str", "absent", "str")
  /\ requests = 1
  /\ response = "none"
  /\ request_id = 0
  /\ success = "unset"
  /\ tempFiles = 0
  /\ tempMade = FALSE
  /\ rpcLog = <<>>
  /\ rpcOutcome = "none"
  /\ ConvertInit
  /\ CoderInit /\ TranscribeInit
  /\ RunnerIdle

ConvertNext == WalkTopNode \/ ConvertReturn \/ ConvertPlainText

SpecConvert == InitConvert /\ [][ConvertNext]_vars

\* the coder server, a process of its own: the bridge has not been started
InitCoder ==
  /\ CounterInit /\ MainInit /\ StreamInit /\ ProcInit /\ GatewayInit
  /\ ConvertIdle /\ CoderInit /\ TranscribeInit
  /\ RunnerIdle

CoderNext ==
  \E h \in Handlers :
    \/ CoderReceive(h) \/ CoderAcquire(h) \/ CoderCheck(h) \/ CoderSet(h)
    \/ CoderStart(h) \/ CoderAccept(h)
    \/ TaskReadEnv(h) \/ TaskClaude(h) \/ TaskAcquire(h) \/ TaskClear(h)
    \/ TaskPost(h)

SpecCoder == InitCoder /\ [][CoderNext]_vars

\* the steps of the handler thread of request h, and of the task thread it
\* started
HandlerStep(h) ==
  \/ CoderAcquire(h) \/ CoderCheck(h) \/ CoderSet(h) \/ CoderStart(h)
  \/ CoderAccept(h)

TaskStep(h) ==
  \/ TaskReadEnv(h) \/ TaskClaude(h) \/ TaskAcquire(h) \/ TaskClear(h)
  \/ TaskPost(h)

\* the coder server with its threads scheduled: a thread that can take a step
\* takes one in the end (the subprocess has a timeout, line 82; the lock is
\* held only over the test and the assignments of the flag)
SpecCoderFair ==
  /\ SpecCoder
  /\ \A h \in Handlers : SF_vars(HandlerStep(h)) /\ SF_vars(TaskStep(h))

\* transcribe_audio called again and again, with every content type and
\* every outcome of the encoder and of the request
InitTranscribe ==
  /\ CounterInit /\ MainInit /\ StreamInit /\ ProcInit /\ GatewayInit
  /\ ConvertIdle /\ CoderInit /\ TranscribeInit
  /\ RunnerIdle

TranscribeNext ==
  \/ TranscribeCall \/ ConvertSupported \/ ConvertTempFile \/ ConvertFfmpeg
  \/ ConvertFailed \/ TranscribeFile \/ TranscribeFinally

SpecTranscribe == InitTranscribe /\ [][TranscribeNext]_vars

\* run_script called with every kind of script
InitRunner ==
  /\ CounterInit /\ MainInit /\ StreamInit /\ ProcInit /\ GatewayInit
  /\ ConvertIdle /\ CoderInit /\ TranscribeInit /\ RunnerInit

RunnerNext ==
  \/ RunGetIds \/ RunTempFile \/ RunSpawn \/ RunCommunicate \/ RunTerminate
  \/ RunGrace \/ RunKill \/ RunCompose \/ RunFinally

SpecRunner == InitRunner /\ [][RunnerNext]_vars

(* =============================== claims ================================ *)

\* C1: whatever the interleaving of the two threads' calls of next(), the
\* n-th call to complete returns n: the returned ids are 1, 2, 3, ... in
\* completion order, none twice and none skipped, and the counter holds the
\* number of completed increments.
C1_NextIsAtomic ==
  /\ \A i \in 1 .. Len(returned) : returned[i] = i
  /\ \A t \in Threads : cret[t] \in 0 .. Len(returned)
  /\ value \in {Len(returned), Len(returned) + 1}

\* C1 happens: one thread is inside the increment, holding the lock, while
\* the other waits to enter, and ids have been handed out to both
C1_Contention ==
  \E t, u \in Threads :
    /\ t # u
    /\ cpc[t] = "store"
    /\ cpc[u] = "acquire"
    /\ cret[t] > 0
    /\ cret[u] > 0

\* C2: while and after process_signal_event handles an event whose
\* sourceNumber is absent or not in the allow-list, nothing has been done for
\* it: no transcoding, no transcription, no agent call, no RPC, no request
\* id; neither message nor attachments have been read, the call being at the
\* authorization check or over.
C2_UnauthorizedNoEffects ==
  (event_data.sourceNumber \notin AllowedNumbers \cup {"unread"}) =>
    /\ effects = {}
    /\ nTranscribe = 0
    /\ nAudio = 0
    /\ agentOutcome = "none"
    /\ agentRequest = NoRequest
    /\ message_text = PyNone
    /\ event_data.message = "unread"
    /\ event_data.attachments = "unread"
    /\ ppc \in {"auth", "idle"}
    /\ procResult # "raised"
    /\ value = 0
    /\ returned = <<>>
    /\ rpcLog = <<>>
    /\ tempFiles = 0

\* C2 happens: an event with a dataMessage from a number outside the
\* allow-list has been handled and the call has returned
C2_StrangerDropped ==
  /\ procResult = "returned"
  /\ event_data.sourceNumber = Stranger
  /\ event_data.dataMessage = "dict"

\* the request do_POST has read names a recipient outside the allow-list
C3_Refused(req) ==
  /\ req.path = "/send"
  /\ req.content_length = "int"
  /\ req.body = "dict"
  /\ req.recipient \notin AllowedNumbers \cup {"absent", "nonstr", "", "none"}

\* C3: a POST /send whose body names a recipient that is a non-empty string
\* outside the allow-list is answered 403 at once, and from its arrival to
\* the end of its handler no id is allocated, no temporary file is created
\* and no RPC is sent; every RPC in the log names an allowed recipient.
C3_RecipientAllowListed ==
  /\ [](\A i \in DOMAIN rpcLog : rpcLog[i].recipient \in AllowedNumbers)
  /\ [][ /\ C3_Refused(request') =>
              /\ response' = "403"
              /\ gpc' = "answered"
         /\ (C3_Refused(request) \/ C3_Refused(request')) =>
              UNCHANGED <<counterVars, request_id, success, tempFiles,
                          tempMade, rpcLog>> ]_vars

\* C3 happens: after a request that was sent on, a request with an attachment
\* for a recipient outside the allow-list has been answered 403
C3_StrangerRefused ==
  /\ response = "403"
  /\ request.recipient = Stranger
  /\ request.attachment = "b64"
  /\ Len(rpcLog) = 1

\* C4 (as the specification states it): every call of process_signal_event
\* that ends returns normally, and the loop is back at reading the stream.
C4_NeverRaises ==
  (procResult \in {"returned", "raised"}) =>
    /\ procResult = "returned"
    /\ mpc = "read"
    /\ pending = "none"

\* the agent call of this event has failed
C5_AgentFailed == agentOutcome \in (AgentOutcomes \cup {"len TypeError"}) \ {"ok"}

C6_BadGroup(lines) ==
  \/ \A i \in DOMAIN lines : ~(lines[i].field = "event" /\ lines[i].val = "receive")
  \/ \A i \in DOMAIN lines : lines[i].field # "data"
  \/ \E i \in DOMAIN lines :
       /\ lines[i].field = "data"
       /\ lines[i].val \in {"", "notjson"}
       /\ \A j \in DOMAIN lines : (j > i) => lines[j].field # "data"

\* C6 (as the specification states it): the blank line after a group that is
\* no event or whose data is not valid JSON discards the group, calls nothing
\* and leaves the stream open, and so does a line of a group whose bytes are
\* not valid text; the blank line after a receive group with a JSON object or
\* a non-empty array hands it to process_signal_event.
C6_BadFrameDropped ==
  [][ /\ (mpc = "read" /\ lastRead' = "undecodable") =>
           /\ mpc' = "read"
           /\ pending' = "none"
           /\ streamEnd' = "none"
      /\ (mpc = "read" /\ lastRead' = "blank" /\ event_lines # <<>>
            /\ C6_BadGroup(event_lines)) =>
           /\ mpc' = "read"
           /\ ppc' = "idle"
           /\ event_lines' = <<>>
           /\ pending' = "none"
           /\ streamEnd' = "none"
      /\ (mpc = "read" /\ lastRead' = "blank" /\ event_lines # <<>>
            /\ ~C6_BadGroup(event_lines)
            /\ LastField(event_lines, "data") \in {"[1]", "{...}"}) =>
           /\ mpc' = "process"
           /\ ppc' = "entry" ]_vars

\* C7: the stream is opened at most once; once a read has returned end of
\* stream main is in its finally block or the process has ended with an
\* error; when the first response is not a 200 no line is read and main is in
\* its finally block or the process has ended with an error.
C7_EofFatalNoReconnect ==
  /\ connects <= 1
  /\ (streamEnd = "eof") =>
       /\ mpc \in FinallyBody \cup {"exited"}
       /\ pending # "none"
       /\ (mpc = "exited") => (exitKind = "error")
  /\ (connStatus \notin {"none", "200"}) =>
       /\ lastRead = "none"
       /\ event_lines = <<>>
       /\ ppc = "idle"
       /\ mpc \in FinallyBody \cup {"exited"}
       /\ pending # "none"
       /\ (mpc = "exited") => (exitKind = "error")

\* C7 happens: the stream ended after a line had been read, and the process
\* has ended with an error
C7_EofEndedProcess ==
  /\ streamEnd = "eof"
  /\ lastRead # "none"
  /\ mpc = "exited"
  /\ exitKind = "error"
  /\ connects = 1

\* C8 (as the specification states it): when the process has ended after the
\* daemon was started, the daemon was sent the termination signal first and
\* is not running.
C8_DaemonAlwaysStopped ==
  (mpc = "exited" /\ daemon # "absent") =>
    /\ signals # <<>>
    /\ signals[1] = "SIGTERM"
    /\ daemon = "exited"

\* C9: wait_for_signal_cli_ready has returned only if the health endpoint
\* has answered 200, and has raised the timeout only with the time run out
\* and no 200; the gateway is started only after it returned and the stream
\* only after the gateway; when it raised neither is started and the process
\* is stopping or has ended with an error.
C9_StartupOrder ==
  /\ (waitResult = "ready") => healthOk
  /\ (waitResult = "timeout") => (~healthOk /\ elapsed >= MaxPolls)
  /\ (mpc \in {"http", "connect", "read", "process"}) => (waitResult = "ready")
  /\ gatewayUp => (waitResult = "ready")
  /\ (connects > 0) => gatewayUp
  /\ (waitResult \in {"timeout", "error"}) =>
       /\ ~gatewayUp
       /\ connects = 0
       /\ mpc \in FinallyBody \cup {"exited"}
       /\ pending # "none"
       /\ (mpc = "exited") => (exitKind = "error")

\* C9 happens: the daemon became ready after a failed poll and the gateway
\* and the stream were started
C9_ReadyThenStarted ==
  /\ waitResult = "ready"
  /\ elapsed > 0
  /\ gatewayUp
  /\ connects = 1
  /\ connStatus = "200"

\* C10: main is inside process_signal_event exactly while a call is in
\* progress, and during the call no line is read: the buffer and the last
\* read stay as the blank line left them.  The gateway thread has been
\* started before any event is handled.
C10_OneAtATime ==
  /\ [](/\ (ppc # "idle") <=> (mpc = "process")
        /\ (ppc # "idle") =>
             /\ lastRead = "blank"
             /\ event_lines # <<>>
             /\ gatewayUp)
  /\ [][(ppc # "idle") => UNCHANGED <<lastRead, connects, streamEnd, dropped>>
                           /\ (event_lines' # event_lines => ppc' = "idle")]_vars

\* C10 happens: a call that went as far as the agent has returned and main is
\* back at reading the stream with an empty buffer
C10_ReturnedThenRead ==
  /\ mpc = "read"
  /\ procResult = "returned"
  /\ "agent" \in effects
  /\ event_lines = <<>>

\* C11 (as the specification states it): when the /send handler has
\* finished, no temporary attachment file is left on disk.
C11_TempFileDeleted ==
  (gpc \in {"answered", "idle"}) => (tempFiles = 0)

\* a POST /send whose body is malformed in one of the ways C12 lists
C12_Malformed(req) ==
  /\ req.path = "/send"
  /\ \/ req.content_length = "invalid"
     \/ req.body \in {"notjson", "undecodable", "nondict"}
     \/ req.recipient \in {"absent", "nonstr", ""}
     \/ /\ req.recipient \in AllowedNumbers
        /\ \/ req.attachment \in {"nonstr", "badb64"}
           \/ req.attachmentFilename = "nonstr"

\* C12 (as the specification states it): every malformed POST /send has been
\* answered 400 when its handler is over, and no id was allocated and no RPC
\* sent for it.
C12_MalformedGets400 ==
  (gpc = "answered" /\ C12_Malformed(request)) =>
    /\ response = "400"
    /\ request_id = 0
    /\ rpcOutcome = "none"

\* C13 (as the specification states it): a validated request is answered 200
\* exactly when the RPC got a 200 without an error member, and 502 for a
\* non-200 status, an error member or a daemon that cannot be reached.
C13_RpcFailureIs502 ==
  (gpc = "answered" /\ rpcOutcome # "none") =>
    /\ (response = "200") <=> (rpcOutcome = "ok")
    /\ (rpcOutcome \in {"status", "error", "OSError"}) => (response = "502")

\* C13 (amended): a validated request is answered 200 exactly when the RPC
\* got a 200 without an error member, and 502 exactly when the daemon
\* answered with another status or with an error member; when the call
\* raised OSError (the daemon cannot be reached), RuntimeError or
\* JSONDecodeError the answer is 500, and any other exception of the call
\* ends the handler without an answer.
C13_AnswerByOutcome ==
  (gpc = "answered" /\ rpcOutcome # "none") =>
    /\ (response = "200") <=> (rpcOutcome = "ok")
    /\ (response = "502") <=> (rpcOutcome \in {"status", "error"})
    /\ (response = "500") <=> (rpcOutcome \in {"OSError", "JSONDecodeError"})
    /\ (response = "crash") <=>
         (rpcOutcome \in {"HTTPException", "UnicodeDecodeError", "TypeError"})
    /\ (success = "true") <=> (rpcOutcome = "ok")

\* C13 happens: the daemon could not be reached for a validated request and
\* the request has been answered 500
C13_UnreachableIs500 ==
  /\ gpc = "answered"
  /\ rpcOutcome = "OSError"
  /\ response = "500"
  /\ request_id > 0

\* C14 (as the specification states it): when the handler of a validated
\* request is over, one RPC has been issued for it, with an id allocated for
\* it and used by no other RPC; with an attachment the RPC carries the
\* temporary file and the unconverted text, without one the converted text.
C14_OneRpcPerRequest ==
  (gpc = "answered" /\ Validate(request) = "pass") =>
    /\ request_id > 0
    /\ request_id = value
    /\ rpcOutcome # "none"
    /\ rpcLog # <<>>
    /\ rpcLog[Len(rpcLog)].id = request_id
    /\ rpcLog[Len(rpcLog)].recipient = request.recipient
    /\ rpcLog[Len(rpcLog)].attachment = (request.attachment = "b64")
    /\ rpcLog[Len(rpcLog)].textStyle = (request.attachment = "absent")
    /\ \A i, j \in DOMAIN rpcLog : (i # j) => (rpcLog[i].id # rpcLog[j].id)

\* C15: whatever the agent returns, and during the whole call, process_signal_event
\* sends no RPC and allocates no request id: the counter and the RPC log are
\* those of the gateway alone.
C15_NoReplyFromBridge ==
  /\ [](/\ effects \cap {"rpc", "id"} = {}
        /\ calls["loop"] = 0
        /\ cpc["loop"] = "idle")
  /\ [][(ppc # "idle") => UNCHANGED <<counterVars, rpcLog, rpcOutcome,
                                      request_id>>]_vars

\* C15 happens: the agent has answered an event with a 200 and a response,
\* and the call has returned
C15_AgentAnswered ==
  /\ agentOutcome = "ok"
  /\ procResult = "returned"
  /\ "agent" \in effects

\* C16: a call that has made the agent request was for an event with a
\* dataMessage from an allowed sender whose assembled text is a non-empty
\* str, and the request carries that text, source "signal" and the sender;
\* it is the last thing the call does, so it is made once.  A call that
\* returned with such a text has made the request, and a call whose text is
\* empty has made none.
C16_AgentCalledIffText ==
  /\ []( /\ ("agent" \in effects) <=> (agentRequest # NoRequest)
         /\ ("agent" \in effects) =>
              /\ ppc = "idle"
              /\ event_data.dataMessage = "dict"
              /\ event_data.sourceNumber \in AllowedNumbers
              /\ message_text.type = "str"
              /\ message_text.parts # <<>>
              /\ agentRequest = [message |-> message_text, source |-> "signal",
                                 sender |-> event_data.sourceNumber]
         /\ (/\ procResult = "returned"
             /\ event_data.dataMessage = "dict"
             /\ event_data.sourceNumber \in AllowedNumbers
             /\ message_text.type = "str"
             /\ message_text.parts # <<>>) => ("agent" \in effects)
         /\ (procResult = "returned" /\ ~Truthy(message_text)) =>
              /\ "agent" \notin effects
              /\ agentOutcome = "none"
              /\ effects \cap {"rpc", "id"} = {} )
  /\ [][(agentRequest' # agentRequest) =>
          \/ (ppc = "agent" /\ ppc' = "idle" /\ agentRequest = NoRequest)
          \/ agentRequest' = NoRequest]_vars

\* C16 happens: an event whose only text is a transcribed voice note has been
\* forwarded to the agent, and the call has returned
C16_VoiceNoteForwarded ==
  /\ procResult = "returned"
  /\ "agent" \in effects
  /\ event_data.message = PyNone
  /\ agentRequest.message = PyStr(<<"[Voice note]: ", "transcript">>)
  /\ agentRequest.source = "signal"

\* C17: every span convert_markdown returns lies inside the returned plain
\* text (the text after its trailing newlines were trimmed): it starts at or
\* after offset 0, is at least one UTF-16 code unit long and ends at or
\* before the UTF-16 length of the text.
C17_SpansInsideText ==
  kpc = "returned" =>
    \A i \in DOMAIN text_styles :
      /\ text_styles[i].start >= 0
      /\ text_styles[i].length > 0
      /\ text_styles[i].start + text_styles[i].length
           <= utf16_length(plain_text)

\* the positions of the characters beyond the BMP in a text of the documents
C18_Wide(text) == {i \in DOMAIN text : text[i] = Emoji}

\* C18: offsets and lengths are UTF-16 code units -- a character at or above
\* U+10000 counts 2 and every other one 1, so that ASCII-only text is as long
\* as its character count; the strong node around the emoji and "bold" gets the
\* one span 0:6:BOLD, and a span after "e-acute, emoji" starts at 3.
C18_Utf16Units ==
  /\ utf16_length(converter.text)
       = Len(converter.text) + Cardinality(C18_Wide(converter.text))
  /\ C18_Wide(converter.text) = {} =>
       utf16_length(converter.text) = Len(converter.text)
  /\ \A i \in DOMAIN converter.styles :
       \E from \in 0 .. Len(converter.text), to \in 0 .. Len(converter.text) :
         /\ from < to
         /\ converter.styles[i].start
              = from + Cardinality(C18_Wide(SubSeq(converter.text, 1, from)))
         /\ converter.styles[i].length
              = (to - from)
                  + Cardinality(C18_Wide(SubSeq(converter.text, from + 1, to)))
  /\ (/\ kpc = "returned"
      /\ ast = <<Paragraph(<<Styled("strong", <<Text(<<Emoji, "b", "o", "l", "d">>)>>)>>)>>)
       => /\ plain_text = <<Emoji, "b", "o", "l", "d">>
          /\ text_styles = <<Span(0, 6, "BOLD")>>
  /\ (/\ kpc = "returned"
      /\ ast = <<Paragraph(<<Text(<<"U+00E9", Emoji>>),
                             Styled("strong", <<Text(<<"a">>)>>)>>)>>)
       => text_styles = <<Span(3, 1, "BOLD")>>

\* the bold run of the emoji and "bold" was converted
C18_EmojiBoldConverted ==
  /\ kpc = "returned"
  /\ ast = <<Paragraph(<<Styled("strong", <<Text(<<Emoji, "b", "o", "l", "d">>)>>)>>)>>
  /\ text_styles = <<Span(0, 6, "BOLD")>>

\* the style the claim names for a node type
C19_Style(type) ==
  CASE type = "strong" -> "BOLD"
    [] type = "emphasis" -> "ITALIC"
    [] type = "strikethrough" -> "STRIKETHROUGH"
    [] type = "codespan" -> "MONOSPACE"

\* "**bold** and *italic*"
C19_BoldAndItalic ==
  <<Paragraph(<<Styled("strong", <<Text(<<"b", "o", "l", "d">>)>>),
                Text(<<" ", "a", "n", "d", " ">>),
                Styled("emphasis", <<Text(<<"i", "t", "a", "l", "i", "c">>)>>)>>)>>

\* C19: a strong, emphasis, strikethrough or inline-code node, walked after
\* any output, adds its rendered content and nothing else to the text, and --
\* unless that content is empty -- one last span that starts at the UTF-16
\* length of the output before the node, is as long as the content in UTF-16
\* units and has the style BOLD, ITALIC, STRIKETHROUGH or MONOSPACE of the
\* node type; "**bold** and *italic*" gives "bold and italic" with the spans
\* 0:4:BOLD and 9:6:ITALIC.
C19_StyledSpan ==
  /\ kpc = "walk" =>
     \A node \in StyledNodes \cup {Codespan(<<"c">>)} :
       LET after == walk_node(converter, node)
           content == IF node.type = "codespan" THEN node.raw
                      ELSE walk_nodes(NewConverter, node.children).text
           before == Len(converter.styles)
       IN  /\ after.text = converter.text \o content
           /\ IF content = <<>> THEN after.styles = converter.styles
              ELSE /\ Len(after.styles) > before
                   /\ SubSeq(after.styles, 1, before) = converter.styles
                   /\ after.styles[Len(after.styles)]
                        = Span(Len(converter.text)
                                 + Cardinality(C18_Wide(converter.text)),
                               Len(content) + Cardinality(C18_Wide(content)),
                               C19_Style(node.type))
  /\ (kpc = "returned" /\ ast = C19_BoldAndItalic)
       => /\ plain_text = <<"b", "o", "l", "d", " ", "a", "n", "d", " ",
                            "i", "t", "a", "l", "i", "c">>
          /\ text_styles = <<Span(0, 4, "BOLD"), Span(9, 6, "ITALIC")>>

\* "**bold** and *italic*" was converted, the second span starting after the
\* nine units before it
C19_BoldAndItalicConverted ==
  /\ kpc = "returned"
  /\ ast = C19_BoldAndItalic
  /\ Len(text_styles) = 2
  /\ text_styles[2].start = 9

\* "# Title", a blank line, "Body"
C20_TitleBody ==
  <<Heading(<<Text(<<"T", "i", "t", "l", "e">>)>>), BlankLine,
    Paragraph(<<Text(<<"B", "o", "d", "y">>)>>)>>

\* C20: a heading, walked after any output, ends the text with its rendered
\* content and a blank line, and -- unless the content is empty -- adds,
\* besides the spans of the nodes inside it, one span: BOLD, from where the
\* content starts, as long as the content; a block walked next starts right
\* after that blank line. "# Title", blank line, "Body" gives "Title", an
\* empty line, "Body" with the one span 0:5:BOLD.
C20_HeadingBold ==
  /\ kpc = "walk" =>
     \A heading \in Headings :
       LET after == walk_node(converter, heading)
           inside == walk_nodes(NewConverter, heading.children)
           content == inside.text
           ending == content \o <<"\n", "\n">>
           start == Len(after.text) - Len(ending)
           lead == SubSeq(after.text, 1, start)
       IN  /\ start >= Len(converter.text)
           /\ SubSeq(lead, 1, Len(converter.text)) = converter.text
           /\ SubSeq(after.text, start + 1, Len(after.text)) = ending
           /\ SubSeq(after.styles, 1, Len(converter.styles)) = converter.styles
           /\ IF content = <<>>
              THEN after.styles = converter.styles
              ELSE /\ Len(after.styles)
                        = Len(converter.styles) + Len(inside.styles) + 1
                   /\ after.styles[Len(after.styles)]
                        = Span(start + Cardinality(C18_Wide(lead)),
                               Len(content) + Cardinality(C18_Wide(content)),
                               "BOLD")
           /\ \A block \in (CoreBlocks \ {BlankLine}) \cup BlockQuotes :
                walk_node(after, block).text
                  = after.text \o walk_node(NewConverter, block).text
  /\ (kpc = "returned" /\ ast = C20_TitleBody)
       => /\ plain_text = <<"T", "i", "t", "l", "e", "\n", "\n",
                            "B", "o", "d", "y">>
          /\ text_styles = <<Span(0, 5, "BOLD")>>

\* "# Title", blank line, "Body" was converted, the body two newlines after
\* the title
C20_TitleBodyConverted ==
  /\ kpc = "returned"
  /\ ast = C20_TitleBody
  /\ Len(plain_text) = 11
  /\ Len(text_styles) = 1

\* C21: when the text a conversion returned holds no markdown syntax,
\* converting that text again returns the same text and no span.
C21_RoundTrip ==
  (kpc = "returned" /\ input.given)
    => /\ plain_text = input.text
       /\ text_styles = <<>>

\* the event type of a group is "receive": its last "event:" line says so
C22_ReceiveGroup(lines) ==
  \E i \in DOMAIN lines :
    /\ lines[i] = [field |-> "event", val |-> "receive"]
    /\ \A j \in DOMAIN lines : j > i => lines[j].field # "event"

\* C22: the buffer grows by one line per non-blank line read and is emptied
\* only by a blank line or when the function is left (the stream ended, an
\* exception, an interrupt); a group is handed to
\* process_signal_event only when a blank line is read after a non-empty
\* group whose event type is "receive", once (the buffer is empty when the
\* call has returned, and a blank line read with an empty buffer hands over
\* nothing); a dropped group leaves the buffer empty; after the stream has
\* ended nothing is handed over.
C22_Framing ==
  /\ [](/\ (mpc = "read" /\ lastRead = "blank") => event_lines = <<>>
        /\ (streamEnd # "none") => (ppc = "idle" /\ mpc \notin {"read", "process"}))
  /\ [][/\ (ppc = "idle" /\ ppc' # "idle") =>
             /\ mpc = "read"
             /\ streamEnd' = "none"
             /\ lastRead' = "blank"
             /\ event_lines # <<>>
             /\ C22_ReceiveGroup(event_lines)
             /\ event_lines' = event_lines
        /\ (mpc = "process" /\ mpc' = "read") => event_lines' = <<>>
        /\ (event_lines' # event_lines) =>
             \/ /\ event_lines' = <<>>
                /\ \/ lastRead' = "blank"
                   \/ mpc' \notin {"read", "process"}
             \/ /\ \E line \in Lines : event_lines' = Append(event_lines, line)
                /\ lastRead' = "line"
                /\ ppc' = "idle"
        /\ (dropped' # dropped) =>
             /\ lastRead' = "blank"
             /\ event_lines # <<>>
             /\ event_lines' = <<>>
             /\ ppc' = "idle"]_vars

\* a group of two lines was handed to process_signal_event at its blank line
C22_GroupHandedAtBlank ==
  /\ mpc = "process"
  /\ ppc = "entry"
  /\ Len(event_lines) = 2
  /\ lastRead = "blank"

\* C23: the kill signal is sent only after the termination signal and the
\* wait, and only to a daemon that did not exit during the wait; a wait during
\* which the daemon exited is followed by no kill, a wait that timed out is
\* followed by the kill next; when the sequence is done the daemon was sent
\* the termination signal first and is not running.
C23_StopSequence ==
  /\ [](/\ (mpc \in {"grace", "kill", "exit"}) =>
             (signals # <<>> /\ signals[1] = "SIGTERM")
        /\ (\E i \in DOMAIN signals : signals[i] = "SIGKILL") =>
             signals = <<"SIGTERM", "SIGKILL">>
        /\ (mpc = "kill") => (daemon = "running" /\ signals = <<"SIGTERM">>)
        /\ (mpc = "exit") =>
             /\ daemon = "exited"
             /\ signals \in {<<"SIGTERM">>, <<"SIGTERM", "SIGKILL">>})
  /\ [][/\ (signals' # signals /\ signals = <<>>) =>
             (mpc = "terminate" /\ mpc' = "grace" /\ signals' = <<"SIGTERM">>)
        /\ (signals' # signals /\ signals # <<>>) =>
             /\ mpc = "kill"
             /\ daemon = "running"
             /\ signals' = <<"SIGTERM", "SIGKILL">>
             /\ daemon' = "exited"
             /\ mpc' = "exit"
        /\ (mpc = "grace" /\ mpc' \in {"kill", "exit"}) =>
             ((mpc' = "exit") <=> (daemon' = "exited"))
        /\ (mpc = "kill" /\ mpc' \in FinallyBody \ {"kill"}) =>
             signals' = <<"SIGTERM", "SIGKILL">>]_vars

\* the wait timed out, the daemon was killed and the sequence is done
C23_KilledAfterGrace ==
  /\ mpc = "exit"
  /\ signals = <<"SIGTERM", "SIGKILL">>
  /\ daemon = "exited"

\* the "[Voice note]" lines in a message text
C24_VoiceNotes(text) ==
  IF text.type = "str"
    THEN Cardinality({i \in DOMAIN text.parts : text.parts[i] = "[Voice note]: "})
    ELSE 0

\* C24 (as the specification states it): for one event at most one
\* transcription is attempted and at most one "[Voice note]" line is added
\* to the message text, however many audio attachments the event carries.
C24_OnlyFirstAudio ==
  /\ nTranscribe <= 1
  /\ C24_VoiceNotes(message_text) <= 1

\* C25 (as the specification states it): a transcription attempt either adds
\* the voice note or, when it fails, leaves the message text as it was, and in
\* both cases the loop over the attachments goes on; without a transcription
\* configuration no transcode and no transcription call is made.
C25_FailureSkipsAttachment ==
  /\ [](stt_config = "None" => effects \cap {"transcode", "transcribe"} = {})
  /\ [][(nTranscribe' = nTranscribe + 1) =>
          /\ ppc' = "attachments"
          /\ procResult' # "raised"
          /\ \/ message_text' = message_text
             \/ message_text' = AppendVoiceNote(message_text)]_vars

\* k voice-note lines, each after a newline
RECURSIVE C26_Notes(_)
C26_Notes(k) ==
  IF k = 0 THEN <<>>
  ELSE C26_Notes(k - 1) \o <<"\n", "[Voice note]: ", "transcript">>

\* the text of an event with k transcribed voice notes: the original text
\* with the notes after it, or the notes alone when there was no text
C26_Expected(original, k) ==
  IF k = 0 THEN original.parts
  ELSE IF original.type = "NoneType" \/ original.parts = <<>>
    THEN Tail(C26_Notes(k))
    ELSE original.parts \o C26_Notes(k)

\* C26: while the attachments of an authorized event are processed, and when
\* its text is forwarded, the text is the event's original message text
\* followed by the voice notes transcribed so far, each on a line of its own,
\* or the voice notes alone when the event carried no text; a successful
\* transcription adds exactly one voice note; the agent request carries the
\* text so assembled.
C26_VoiceNoteAppended ==
  /\ [](/\ (ppc \in {"attachments", "agent"}) =>
             message_text.parts
               = C26_Expected(event_data.message, C24_VoiceNotes(message_text))
        /\ (agentRequest # NoRequest) =>
             /\ agentRequest.message = message_text
             /\ message_text.parts
                  = C26_Expected(event_data.message, C24_VoiceNotes(message_text)))
  /\ [][(nTranscribe' = nTranscribe + 1 /\ message_text' # message_text) =>
          /\ message_text'.type = "str"
          /\ C24_VoiceNotes(message_text') = C24_VoiceNotes(message_text) + 1]_vars

\* a text with a voice note after it was forwarded to the agent
C26_TextThenVoiceNote ==
  /\ procResult = "returned"
  /\ "agent" \in effects
  /\ event_data.message = PyStr(<<"hi">>)
  /\ agentRequest.message
       = PyStr(<<"hi", "\n", "[Voice note]: ", "transcript">>)

\* a top-level node that puts characters other than newlines into the text
C27_Rendered(node) ==
  \E i \in DOMAIN walk_node(NewConverter, node).text :
    walk_node(NewConverter, node).text[i] # "\n"

\* C27 (as the specification states it): after every block that renders
\* something the text ends with exactly one blank line -- two newlines, not
\* three -- and the next block adds its content right there, without a
\* newline of its own in front, however many blank_line nodes lie between; a
\* thematic break adds the line "---".
C27_OneBlankLine ==
  (/\ kpc = "walk"
   /\ \A i \in 1 .. walked : ast[i].type = "blank_line" \/ C27_Rendered(ast[i])
   /\ \E i \in 1 .. walked : ast[i].type # "blank_line")
    => /\ endswith(converter.text, <<"\n", "\n">>)
       /\ ~endswith(converter.text, <<"\n", "\n", "\n">>)
       /\ \A block \in CoreBlocks \ {BlankLine} :
            LET after == walk_node(converter, block).text
            IN  /\ Len(after) > Len(converter.text)
                /\ SubSeq(after, 1, Len(converter.text)) = converter.text
                /\ after[Len(converter.text) + 1] # "\n"
       /\ walk_node(converter, ThematicBreak).text
            = converter.text \o <<"-", "-", "-", "\n", "\n">>

\* the links of the documents
C28_Links == {node \in Leaves : node.type = "link"}

\* what a link adds to the text, given the rule that tells when the URL
\* stands alone
C28_Spliced(link, url_alone) ==
  LET link_text == walk_nodes(NewConverter, link.children).text
  IN  IF url_alone THEN link.url
      ELSE link_text \o <<" ", "(">> \o link.url \o <<")">>

\* a link walked after any output adds the spliced text and no span and
\* leaves the text and the spans before it alone; a style around the link
\* spans the whole spliced text, and a span after the link starts after it
C28_Rendering(link, url_alone) ==
  LET spliced == C28_Spliced(link, url_alone)
      after == walk_node(converter, link)
      inside == walk_node(converter, Styled("emphasis", <<link>>))
      behind == walk_nodes(converter, <<link, Styled("strong", <<Text(<<"a">>)>>)>>)
      offset == Len(converter.text) + Cardinality(C18_Wide(converter.text))
  IN  /\ after.text = converter.text \o spliced
      /\ after.styles = converter.styles
      /\ inside.text = after.text
      /\ inside.styles = Append(converter.styles, Span(offset, Len(spliced), "ITALIC"))
      /\ behind.text = after.text \o <<"a">>
      /\ behind.styles
           = Append(converter.styles, Span(offset + Len(spliced), 1, "BOLD"))

\* C28 (as the specification states it): the URL stands alone only when the
\* rendered link text equals it; every other link is rendered "text (url)".
C28_TextAndUrl ==
  kpc = "walk" =>
    \A link \in C28_Links :
      C28_Rendering(link, walk_nodes(NewConverter, link.children).text = link.url)

\* C28 (as the code has it): the URL stands alone when the rendered link text
\* equals it or is empty; every other link is rendered "text (url)"; the link
\* text is rendered apart, so that the text and the spans before the link stay
\* and the spans inside the link text are not kept, and the spans around and
\* after the link count the whole spliced text.
C28_TextAndUrlUnlessEmpty ==
  kpc = "walk" =>
    \A link \in C28_Links :
      C28_Rendering(link,
                    LET link_text == walk_nodes(NewConverter, link.children).text
                    IN  link_text = <<>> \/ link_text = link.url)

\* "*[t](h:x)*" was converted: the span of the emphasis covers "t (h:x)"
C28_EmphasisedLinkConverted ==
  /\ kpc = "returned"
  /\ ast = <<Paragraph(<<Styled("emphasis", <<Link(<<Text(<<"t">>)>>, Url)>>)>>)>>
  /\ plain_text = <<"t", " ", "(", "h", ":", "x", ")">>
  /\ text_styles = <<Span(0, 7, "ITALIC")>>

\* the marker of the item at a position of a list
C29_Marker(list, index) ==
  IF list.ordered
    THEN str((IF list.start = 0 THEN 1 ELSE list.start) + index - 1) \o <<".", " ">>
    ELSE <<"-", " ">>

\* the lines of the items of a list from a position on, each ended by a
\* newline: marker and item text, then the lines of the item's nested list
\* two spaces in
RECURSIVE C29_Lines(_, _, _)
C29_Lines(list, index, indent) ==
  IF index > Len(list.children) THEN <<>>
  ELSE LET item == list.children[index]
           own == indent \o C29_Marker(list, index)
                    \o walk_nodes(NewConverter, item.children[1].children).text
                    \o <<"\n">>
           nested == IF Len(item.children) > 1
                       THEN C29_Lines(item.children[2], 1, <<" ", " ">>)
                       ELSE <<>>
       IN  own \o nested \o C29_Lines(list, index + 1, indent)

\* C29 (as the specification states it): a document that is one list is
\* converted to the lines of its items -- "- " or "N. " and the item text,
\* nested items two spaces in -- one after the other with no blank line
\* between them and no newline at the end; the list of "a" and "b" gives
\* "- a", newline, "- b" and no span.
C29_ListLines ==
  (kpc = "returned" /\ Len(ast) = 1 /\ ast[1].type = "list")
    => /\ plain_text = rstrip_newlines(C29_Lines(ast[1], 1, <<>>))
       /\ \A i \in 1 .. (Len(plain_text) - 1) :
            ~(plain_text[i] = "\n" /\ plain_text[i + 1] = "\n")
       /\ (ast[1] = List(FALSE, 0, <<ListItem(<<BlockText(<<Text(<<"a">>)>>)>>),
                                     ListItem(<<BlockText(<<Text(<<"b">>)>>)>>)>>))
            => /\ plain_text = <<"-", " ", "a", "\n", "-", " ", "b">>
               /\ text_styles = <<>>


\* the positions of a task thread at which its coding task is running: from
\* the start of the thread until it has cleared _claude_running
C30_Running == {"env", "claude", "finally", "clear"}

\* the positions of a task thread that has cleared _claude_running
C30_Cleared == {"post", "done", "post failed"}

\* what holds of the lock, the flag and the tasks in every state: at most one
\* task is running; a handler tests and sets the flag only while it holds the
\* lock; the flag is True while a task is running, so that the handler that
\* tests it then answers 409; no handler is about to set the flag while a
\* task is running; a request answered 409 has started no task
C30_Exclusion ==
  /\ Cardinality({h \in Handlers : tpc[h] \in C30_Running}) <= 1
  /\ \A h \in Handlers : hpc[h] \in {"check", "set"} => claude_lock = HandlerOf(h)
  /\ (\E k \in Handlers : tpc[k] \in C30_Running) => claude_running
  /\ \A h \in Handlers :
       hpc[h] \in {"set", "start"} =>
         \A k \in Handlers : k # h => tpc[k] \notin C30_Running
  /\ \A h \in Handlers : sent[h] = "409" => tpc[h] = "none"

C31_Ended == {"env failed", "post", "done", "post failed"}

\* C31: once an accepted coding task has ended, by any path (failure to read
\* the environment file and a missing MODEL entry included), the running flag
\* is cleared: the flag is True only while the task of some accepted request
\* is running, or while a handler that has set it is about to start its task.
C31_FlagClearedAfterTask ==
  \A h \in Handlers :
    (tpc[h] \in C31_Ended /\ claude_running) =>
      \E k \in Handlers :
        /\ k # h
        /\ \/ tpc[k] \in C30_Running
           \/ hpc[k] \in {"start", "start failed"}

\* the positions of a task thread that has called post_result: the result
\* was posted, or the request for it raised
C32_Posted == {"done", "post failed"}

\* C32: every task accepted with 202 eventually posts its one result message
\* to the chat endpoint of the app.
C32_AcceptedTaskPosts ==
  \A h \in Handlers : (sent[h] = "202") ~> (tpc[h] \in C32_Posted)

\* C33: when transcribe_audio has returned or raised, the temporary mp3
\* file convert_audio_to_mp3 created is not on disk any more, on every path
\* (a file whose os.unlink raised OSError is not counted against the code);
\* and no temporary file is created for a content type of the accepted set.
C33_TempFileDeleted ==
  /\ (xpc \in {"returned", "raised"}) => (mp3 # "on disk")
  /\ (content_type \in SUPPORTED_AUDIO_TYPES) => (mp3 = "none")

\* the text holds the timed-out message
C34_HasTimeoutMessage(text) ==
  \E i \in 1 .. Len(text) : text[i] = timeout_message

\* C34: run_script always ends by returning a text; a script that runs longer
\* than the 30 seconds is sent SIGTERM, and then SIGKILL if and only if it
\* has not ended 5 seconds later, never SIGKILL first; the text returned
\* after a timeout holds the timed-out message; and once run_script has
\* ended, the temporary script file it created is not on disk any more (a
\* file whose os.unlink raised OSError is not counted against the code).
C34_RunScriptEnds ==
  (spc = "ended") =>
    /\ run_result.kind = "returned"
    /\ sent_signals =
         IF uv_process = "none" \/ script.ends = "in time" THEN <<>>
         ELSE IF script.ends = "on SIGTERM" THEN <<"SIGTERM">>
         ELSE <<"SIGTERM", "SIGKILL">>
    /\ (sent_signals # <<>>) => C34_HasTimeoutMessage(run_result.text)
    /\ script_file # "on disk"

\* the end offset of a span
C35_End(span) == span.start + span.length

\* the spans of a list are in the order of their end offsets
C35_OrderedByEnd(styles) ==
  \A i, j \in 1 .. Len(styles) : i < j => C35_End(styles[i]) <= C35_End(styles[j])

\* C35: the spans are appended when their nodes close, so that the list is
\* ordered by non-decreasing end offset, while being walked and when
\* returned; a styled node inside a styled node, walked after any output,
\* adds its span before the span of the enclosing node, which starts before
\* it; and a link, walked after any output, adds no span, whatever styled
\* nodes its text holds.
C35_SpansInClosingOrder ==
  /\ C35_OrderedByEnd(converter.styles)
  /\ C35_OrderedByEnd(text_styles)
  /\ kpc = "walk" =>
       /\ \A node \in StyledNested :
            LET after == walk_node(converter, node)
                n == Len(after.styles)
            IN  /\ n = Len(converter.styles) + 2
                /\ C35_OrderedByEnd(after.styles)
                /\ after.styles[n - 1].style = C19_Style(node.children[2].type)
                /\ after.styles[n].style = C19_Style(node.type)
                /\ after.styles[n].start < after.styles[n - 1].start
       /\ \A link \in C28_Links :
            LET after == walk_node(converter, link)
            IN  /\ after.styles = converter.styles
                /\ C35_OrderedByEnd(walk_nodes(after, <<Codespan(<<"c">>)>>).styles)

\* a bold node around a text and an italic node was converted: the italic
\* span comes first, starts after the bold span and ends where it ends
C35_InnerSpanFirst ==
  /\ kpc = "returned"
  /\ ast = <<Paragraph(<<Styled("strong",
               <<Text(<<"a">>),
                 Styled("emphasis", <<Text(<<Emoji, "b", "o", "l", "d">>)>>)>>)>>)>>
  /\ Len(text_styles) = 2
  /\ text_styles[1].style = "ITALIC"
  /\ text_styles[2].style = "BOLD"
  /\ text_styles[1].start > text_styles[2].start
  /\ C35_End(text_styles[1]) = C35_End(text_styles[2])

====
